---- MODULE Spec2Model ----
(***************************************************************************)
(* Gym front-desk administration: the membership lifecycle and the plan    *)
(* duration engine.  The model covers the AddMember page (enrolment: one   *)
(* member insert followed by one member_memberships insert) and the        *)
(* CreateMembershipPlan page (plan save with the duration converted to     *)
(* months), both talking to the hosted repository through awaited calls,   *)
(* and the pages around them: Members (list, addMember, deleteMember),     *)
(* Memberships (cards, dialog, updatePlan, deletePlan) and Payments (the    *)
(* record-payment dialog).                                                 *)
(***************************************************************************)
EXTENDS Integers, Sequences, FiniteSets, TLC

VARIABLES
    page,               \* the route that is mounted
    tz,                 \* the browser's time zone: its standard offset, hours east of UTC
    today,              \* the UTC calendar date of "now", <<y, m, d>>
    hour,               \* the UTC hour of the day of "now"
    membership_plans,   \* repository table membership_plans
    members,            \* repository table members
    member_memberships, \* repository table member_memberships
    nextId,             \* the repository's id generator
    repoLog,            \* every repository call issued so far, in order
    inflight,           \* repository calls issued and not yet returned
    formData,           \* AddMember: the form contents
    loading,            \* AddMember: the loading flag
    membershipPlans,    \* AddMember: the plans fetched on mount
    toast,              \* AddMember: the last toast shown
    invocations,        \* AddMember: handleSubmit invocations still running
    nCalls,             \* AddMember: handleSubmit invocations started so far
    lastDone,           \* AddMember: the invocation that finished last
    editingId,          \* CreateMembershipPlan: the id search parameter
    name,               \* CreateMembershipPlan: the plan name field
    durationType,       \* CreateMembershipPlan: day, week or month
    durationValue,      \* CreateMembershipPlan: the duration number field
    price,              \* CreateMembershipPlan: the price field, a string
    selectedClasses,    \* CreateMembershipPlan: the classes in selection order
    endDate,            \* CreateMembershipPlan: the end date shown, <<>> for ""
    description,        \* CreateMembershipPlan: the description field
    planLoad,           \* CreateMembershipPlan: where loadPlan stands
    touched,            \* CreateMembershipPlan: fields edited since loadPlan
    nEdits,             \* CreateMembershipPlan: edits of the form so far
    planLoading,        \* CreateMembershipPlan: its loading flag
    error,              \* CreateMembershipPlan: the error shown, "" for null
    success,            \* CreateMembershipPlan: the success flag
    saves,              \* CreateMembershipPlan: handleSubmit invocations running
    nSaves,             \* CreateMembershipPlan: handleSubmit invocations started
    lastSaved,          \* CreateMembershipPlan: the row of the last call issued
    memberList,         \* Members: the members state, the list shown
    membersLoading,     \* Members: its loading flag
    membersError,       \* Members: the error shown, "" for null
    adds,               \* Members: addMember invocations still running
    nAdds,              \* Members: addMember invocations started so far
    plans,              \* Memberships: the plans state, the cards shown
    dialogToast,        \* Memberships: the last toast shown
    nDialogs,           \* Memberships: handleSubmit invocations so far
    plansLoading,       \* Memberships: its loading flag
    plansError,         \* Memberships: the error shown, "" for null
    payments,           \* repository table payments
    paymentList,        \* Payments: the payments state, newest first
    payMembers,         \* Payments: the members offered in the dialog
    payForm,            \* Payments: the dialog's form contents
    isDialogOpen,       \* Payments: whether the dialog is open
    payToast,           \* Payments: the last toast shown
    payError,           \* Payments: the error shown, "" for null
    payLoading,         \* Payments: its loading flag
    nPays               \* Payments: handleSubmit invocations started so far

vars == <<page, tz, today, hour, membership_plans, members, member_memberships,
          nextId, repoLog, inflight, formData, loading, membershipPlans,
          toast, invocations, nCalls, lastDone, editingId, name,
          durationType, durationValue, price, selectedClasses, endDate,
          description, planLoad, touched, nEdits, planLoading,
          error, success, saves, nSaves, lastSaved, memberList,
          membersLoading, membersError, adds, nAdds, plans, dialogToast,
          nDialogs, plansLoading, plansError, payments, paymentList,
          payMembers, payForm, isDialogOpen, payToast, payError, payLoading,
          nPays>>

membershipsPageVars == <<plans, dialogToast, nDialogs>>

plansStatusVars == <<plansLoading, plansError>>

paymentsPageVars == <<payments, paymentList, payMembers, payForm, isDialogOpen,
                      payToast, payError, payLoading, nPays>>

membersPageVars == <<memberList, membersLoading, membersError, adds, nAdds>>

addMemberVars == <<formData, loading, membershipPlans, toast, invocations,
                   nCalls, lastDone>>

planFormVars == <<editingId, name, durationType, durationValue, price,
                  selectedClasses, endDate, description, planLoad, touched>>

planPageVars == <<planFormVars, nEdits, planLoading, error, success, saves,
                  nSaves, lastSaved>>

repoVars == <<membership_plans, members, member_memberships, nextId>>

(***************************************************************************)
(* Bounds of the model.                                                    *)
(***************************************************************************)
MaxSubmits == 2

MaxSaves == 2

MaxAdds == 2

MaxDurationValue == 31

MaxEdits == 3

MaxDialogs == 2

\* calls of Memberships.updatePlan
MaxUpdates == 1

\* submissions of the record-payment dialog
MaxPays == 2

(***************************************************************************)
(* Calendar arithmetic of the JavaScript Date object, in hours.            *)
(* A time value is a number of hours since 1970-01-01T00:00Z.              *)
(***************************************************************************)
Years == 2023..2027

DayFromYear(y) ==
    365 * (y - 1970) + ((y - 1969) \div 4) - ((y - 1901) \div 100)
        + ((y - 1601) \div 400)

InLeapYear(y) == (y % 4 = 0) /\ ((y % 100 # 0) \/ (y % 400 = 0))

\* days of the year that precede month m (0-based, as Date.getMonth)
MonthStart(y, m) ==
    <<0, 31, 59, 90, 120, 151, 181, 212, 243, 273, 304, 334>>[m + 1]
        + (IF m >= 2 /\ InLeapYear(y) THEN 1 ELSE 0)

DaysInMonth(y, m) ==
    IF m = 11 THEN 31 ELSE MonthStart(y, m + 1) - MonthStart(y, m)

\* ECMAScript MakeDay: the month may overflow into later years and the
\* date may overflow into later months
MakeDay(year, month, date) ==
    LET ym == year + (month \div 12)
        mn == month % 12
    IN  DayFromYear(ym) + MonthStart(ym, mn) + date - 1

YearFromDay(day) ==
    CHOOSE y \in Years : DayFromYear(y) <= day /\ day < DayFromYear(y + 1)

MonthFromDay(day) ==
    LET y == YearFromDay(day)
        diy == day - DayFromYear(y)
    IN  CHOOSE m \in 0..11 :
            MonthStart(y, m) <= diy /\ diy < MonthStart(y, m) + DaysInMonth(y, m)

DateFromDay(day) ==
    LET y == YearFromDay(day)
    IN  day - DayFromYear(y) - MonthStart(y, MonthFromDay(day)) + 1

\* new Date("YYYY-MM-DD"): a date-only string is UTC midnight
NewDate(iso) == MakeDay(iso[1], iso[2] - 1, iso[3]) * 24

\* ECMAScript WeekDay: 0 is Sunday, and 1970-01-01 was a Thursday
WeekDay(day) == (day + 4) % 7

\* the day number of the last Sunday of month m (0-based) of year y
LastSunday(y, m) ==
    LET last == MakeDay(y, m, DaysInMonth(y, m))
    IN  last - WeekDay(last)

\* the zone at standard offset 1 follows the European rule: its clocks are
\* one hour ahead from 01:00 UTC of the last Sunday of March to 01:00 UTC of
\* the last Sunday of October; the zones at -5 and 0 never change
InSummerTime(t) ==
    LET y == YearFromDay(t \div 24)
    IN  /\ tz = 1
        /\ LastSunday(y, 2) * 24 + 1 <= t
        /\ t < LastSunday(y, 9) * 24 + 1

\* ECMAScript LocalTime: the local time of time value t
LocalTime(t) == t + tz + (IF InSummerTime(t) THEN 1 ELSE 0)

\* ECMAScript UTC: the time value of a local time
UTCTime(local) ==
    IF InSummerTime(local - tz - 1) THEN local - tz - 1 ELSE local - tz

\* Date.prototype.getMonth: the month of the local time
GetMonth(t) == MonthFromDay(LocalTime(t) \div 24)

\* Date.prototype.setMonth: replaces the month of the local time
SetMonth(t, month) ==
    LET local == LocalTime(t)
        day == local \div 24
    IN  UTCTime(MakeDay(YearFromDay(day), month, DateFromDay(day)) * 24
                    + (local % 24))

\* Date.prototype.getDate: the day of the month of the local time
GetDate(t) == DateFromDay(LocalTime(t) \div 24)

\* Date.prototype.setDate: replaces the day of the month of the local time
SetDate(t, date) ==
    LET local == LocalTime(t)
        day == local \div 24
    IN  UTCTime(MakeDay(YearFromDay(day), MonthFromDay(day), date) * 24
                    + (local % 24))

\* new Date(): the time value of "now"
Now == NewDate(today) + hour

\* the calendar date of the local time
LocalDate(t) == LET day == LocalTime(t) \div 24
                IN  <<YearFromDay(day), MonthFromDay(day) + 1, DateFromDay(day)>>

\* Date.prototype.toISOString().split('T')[0]: the UTC calendar date
ToISODate(t) ==
    LET day == t \div 24
    IN  <<YearFromDay(day), MonthFromDay(day) + 1, DateFromDay(day)>>

(***************************************************************************)
(* The values the model draws its inputs from.                             *)
(***************************************************************************)
NoDate == <<>>

StartDates == {<<2024, 1, 31>>, <<2024, 3, 1>>}

TimeZones == {-5, 0, 1}

\* the active plans the repository holds when the pages are mounted
InitialPlans ==
    { [id |-> "plan-a", name |-> "Monthly", price |-> 499, duration_months |-> 1,
       description |-> "", features |-> <<"Yoga">>, is_active |-> TRUE],
      [id |-> "plan-b", name |-> "Yearly", price |-> 4999, duration_months |-> 12,
       description |-> "", features |-> <<"HIIT", "Yoga">>, is_active |-> TRUE] }

\* what the user can have typed into the AddMember form when submitting
\* (phone, address, emergency contact and notes are passed through to the
\* row untouched and are left out)
FormInputs ==
    [ firstName : {"", "Ann"}, lastName : {"", "Lee"}, email : {"", "ann@gym"},
      membershipPlan : {""} \cup {p.id : p \in InitialPlans},
      startDate : {NoDate} \cup StartDates ]

EmptyForm ==
    [firstName |-> "", lastName |-> "", email |-> "", membershipPlan |-> "",
     startDate |-> NoDate]

NoToast == [title |-> "", description |-> ""]

\* Payments: the form a freshly mounted page or a recorded payment leaves
EmptyPayForm == [memberId |-> 0, amount |-> "", method |-> "", date |-> today]

ValidationToast ==
    [title |-> "Validation Error",
     description |-> "Please fill in all required fields."]

MemberErrorToast ==
    [title |-> "Error", description |-> "Failed to add member. Please try again."]

WarningToast ==
    [title |-> "Warning",
     description |-> "Member added but membership assignment failed. Please assign manually."]

SuccessToast ==
    [title |-> "Member Added Successfully",
     description |-> "has been added to the system."]

UnexpectedToast ==
    [title |-> "Error", description |-> "An unexpected error occurred."]

(***************************************************************************)
(* AddMember.handleSubmit, piece by piece.                                 *)
(***************************************************************************)
\* a validation that forgets the email field
IsValidWithoutEmail(f) ==
    ~(f.firstName = "" \/ f.lastName = "" \/ f.membershipPlan = "")

\* the "Basic validation" test: every required field is non-empty
IsValid(f) ==
    ~(f.firstName = "" \/ f.lastName = "" \/ f.email = "" \/ f.membershipPlan = "")

\* a submit button that is never disabled
SubmitAlwaysEnabled == TRUE

\* the submit button is rendered with disabled={loading}
SubmitEnabled == ~loading

\* the row handed to supabase.from("members").insert
NewMemberRow(f) ==
    [id |-> 0, first_name |-> f.firstName, last_name |-> f.lastName,
     email |-> f.email, status |-> "active"]

\* formData.startDate || new Date().toISOString().split('T')[0]
ResolveStartDate(f) == IF f.startDate = NoDate THEN today ELSE f.startDate

\* selectedPlan?.duration_months || 1
SelectedDuration(f) ==
    LET found == {p \in membershipPlans : p.id = f.membershipPlan}
    IN  IF found = {} THEN 1
        ELSE LET d == (CHOOSE p \in found : TRUE).duration_months
             IN  IF d = 0 THEN 1 ELSE d

\* endDate = new Date(startDate); endDate.setMonth(endDate.getMonth() + n);
\* endDate.toISOString().split('T')[0]
ComputeEndDate(start, n) ==
    LET t == NewDate(start)
    IN  ToISODate(SetMonth(t, GetMonth(t) + n))

\* a membership row that links the first member instead of the new one
NewMembershipRowForFirstMember(memberId, f) ==
    [id |-> 0, member_id |-> 1, membership_plan_id |-> f.membershipPlan,
     start_date |-> ResolveStartDate(f),
     end_date |-> ComputeEndDate(ResolveStartDate(f), SelectedDuration(f)),
     is_active |-> TRUE]

\* the row handed to supabase.from("member_memberships").insert
NewMembershipRow(memberId, f) ==
    [id |-> 0, member_id |-> memberId, membership_plan_id |-> f.membershipPlan,
     start_date |-> ResolveStartDate(f),
     end_date |-> ComputeEndDate(ResolveStartDate(f), SelectedDuration(f)),
     is_active |-> TRUE]

\* error.message of a repository call that returned an error
RepositoryMessage == "repository error message"

Request(by, call, table, op, row) ==
    [by |-> by, call |-> call, table |-> table, op |-> op, row |-> row]

\* what the log keeps of an issued call: who issued it, on which table, and,
\* once it has returned, how it ended and the id of the row it created
LogEntry(q) ==
    [by |-> q.by, call |-> q.call, table |-> q.table, op |-> q.op,
     result |-> "pending", rowId |-> 0]

RECURSIVE LogOf(_)
LogOf(qs) == IF qs = <<>> THEN <<>> ELSE <<LogEntry(Head(qs))>> \o LogOf(Tail(qs))

Range(s) == {s[i] : i \in DOMAIN s}

Pending(log, q) ==
    {i \in DOMAIN log : /\ log[i].by = q.by /\ log[i].call = q.call
                        /\ log[i].table = q.table /\ log[i].op = q.op
                        /\ log[i].result = "pending"}

\* the log once call q has returned with result res (and row id, if any)
Answered(log, q, res, id) ==
    LET i == CHOOSE k \in Pending(log, q) : \A j \in Pending(log, q) : k <= j
    IN  [log EXCEPT ![i].result = res, ![i].rowId = id]

\* both inserts issued together, without awaiting the first
RequestsOnSubmitTogether(id, f) ==
    <<Request("enroll", id, "members", "insert", NewMemberRow(f)),
      Request("enroll", id, "member_memberships", "insert", NewMembershipRow(0, f))>>

\* the repository calls handleSubmit issues before its first await returns
RequestsOnSubmit(id, f) == <<Request("enroll", id, "members", "insert", NewMemberRow(f))>>

\* the repository calls issued once the member insert has returned a row
RequestsAfterMember(id, f, memberData) ==
    <<Request("enroll", id, "member_memberships", "insert", NewMembershipRow(memberData.id, f))>>

\* a failed member insert that is issued again
RequestsOnMemberErrorRetry(id, f) ==
    <<Request("enroll", id, "members", "insert", NewMemberRow(f))>>

\* a failed member insert after which the membership insert is still issued
RequestsOnMemberErrorGoOn(id, f) ==
    <<Request("enroll", id, "member_memberships", "insert", NewMembershipRow(0, f))>>

\* the repository calls issued when the member insert returned an error:
\* none, handleSubmit shows the toast and returns
RequestsOnMemberError(id, f) == <<>>

\* a failed membership insert compensated by deleting the new member
RequestsOnMembershipErrorRollback(id, f, memberData) ==
    <<Request("enroll", id, "members", "delete", memberData)>>

\* the repository calls issued when the membership insert returned an error:
\* none, handleSubmit shows the warning and goes on
RequestsOnMembershipError(id, f, memberData) == <<>>

Finished(id, f, t) == <<[id |-> id, form |-> f, toast |-> t]>>

\* handleSubmit up to its first await; f is what the form holds at the click
handleSubmit(f) ==
    /\ page = "add-member"
    /\ SubmitEnabled
    /\ nCalls < MaxSubmits
    /\ nCalls' = nCalls + 1
    /\ formData' = f
    /\ IF ~IsValid(f)
       THEN /\ toast' = ValidationToast
            /\ lastDone' = Finished(nCalls + 1, f, ValidationToast)
            /\ UNCHANGED <<loading, invocations, inflight, repoLog>>
       ELSE /\ loading' = TRUE
            /\ invocations' = invocations \cup
                   {[id |-> nCalls + 1, pc |-> "awaitMember", form |-> f,
                     memberData |-> <<>>]}
            /\ inflight' = inflight \cup Range(RequestsOnSubmit(nCalls + 1, f))
            /\ repoLog' = repoLog \o LogOf(RequestsOnSubmit(nCalls + 1, f))
            /\ UNCHANGED <<toast, lastDone>>
    /\ UNCHANGED <<page, tz, today, hour, membersPageVars, membershipsPageVars, plansStatusVars, paymentsPageVars, planPageVars,
                   repoVars, membershipPlans>>

\* the member insert returns a row: handleSubmit goes on to the second insert
MemberInsertSucceeds(inv, q) ==
    /\ inv \in invocations /\ inv.pc = "awaitMember"
    /\ q \in inflight /\ q.by = "enroll" /\ q.call = inv.id
    /\ q.table = "members" /\ q.op = "insert"
    /\ LET row == [q.row EXCEPT !.id = nextId]
           next == RequestsAfterMember(inv.id, inv.form, row)
       IN  /\ members' = members \cup {row}
           /\ nextId' = nextId + 1
           /\ invocations' = (invocations \ {inv}) \cup
                  {[inv EXCEPT !.pc = "awaitMembership", !.memberData = <<row>>]}
           /\ inflight' = (inflight \ {q}) \cup Range(next)
           /\ repoLog' = Answered(repoLog, q, "ok", nextId) \o LogOf(next)
    /\ UNCHANGED <<page, tz, today, hour, membersPageVars, membershipsPageVars, plansStatusVars, paymentsPageVars, planPageVars,
                   membership_plans, member_memberships,
                   formData, loading, membershipPlans, toast, nCalls, lastDone>>

\* the member insert returns an error: toast, return, finally
MemberInsertFails(inv, q) ==
    /\ inv \in invocations /\ inv.pc = "awaitMember"
    /\ q \in inflight /\ q.by = "enroll" /\ q.call = inv.id
    /\ q.table = "members" /\ q.op = "insert"
    /\ LET next == RequestsOnMemberError(inv.id, inv.form)
       IN  /\ inflight' = (inflight \ {q}) \cup Range(next)
           /\ repoLog' = Answered(repoLog, q, "error", 0) \o LogOf(next)
           /\ IF next = <<>>
              THEN /\ toast' = MemberErrorToast
                   /\ lastDone' = Finished(inv.id, inv.form, MemberErrorToast)
                   /\ loading' = FALSE
                   /\ invocations' = invocations \ {inv}
              ELSE UNCHANGED <<toast, lastDone, loading, invocations>>
    /\ UNCHANGED <<page, tz, today, hour, membersPageVars, membershipsPageVars, plansStatusVars, paymentsPageVars, planPageVars,
                   repoVars, formData, membershipPlans, nCalls>>

\* the tail of handleSubmit: reset the form, navigate back, finally
FinishSubmit(inv, t) ==
    /\ toast' = t
    /\ lastDone' = Finished(inv.id, inv.form, t)
    /\ formData' = EmptyForm
    /\ loading' = FALSE
    /\ invocations' = invocations \ {inv}

\* the membership insert returns without an error
MembershipInsertSucceeds(inv, q) ==
    /\ inv \in invocations /\ inv.pc = "awaitMembership"
    /\ q \in inflight /\ q.by = "enroll" /\ q.call = inv.id
    /\ q.table = "member_memberships" /\ q.op = "insert"
    /\ member_memberships' = member_memberships \cup {[q.row EXCEPT !.id = nextId]}
    /\ nextId' = nextId + 1
    /\ inflight' = inflight \ {q}
    /\ repoLog' = Answered(repoLog, q, "ok", nextId)
    /\ FinishSubmit(inv, SuccessToast)
    /\ UNCHANGED <<page, tz, today, hour, membersPageVars, membershipsPageVars, plansStatusVars, paymentsPageVars, planPageVars,
                   membership_plans, members,
                   membershipPlans, nCalls>>

\* the membership insert returns an error: the warning toast, no rollback
MembershipInsertFails(inv, q) ==
    /\ inv \in invocations /\ inv.pc = "awaitMembership"
    /\ q \in inflight /\ q.by = "enroll" /\ q.call = inv.id
    /\ q.table = "member_memberships" /\ q.op = "insert"
    /\ LET next == RequestsOnMembershipError(inv.id, inv.form, inv.memberData[1])
       IN  /\ inflight' = (inflight \ {q}) \cup Range(next)
           /\ repoLog' = Answered(repoLog, q, "error", 0) \o LogOf(next)
    /\ FinishSubmit(inv, WarningToast)
    /\ UNCHANGED <<page, tz, today, hour, membersPageVars, membershipsPageVars, plansStatusVars, paymentsPageVars, planPageVars,
                   repoVars, membershipPlans, nCalls>>

\* the awaited call rejects instead of returning: catch shows the generic
\* toast, finally resets the flag; the repository is left as it was
AwaitThrows(inv, q) ==
    /\ inv \in invocations
    /\ q \in inflight /\ q.by = "enroll" /\ q.call = inv.id
    /\ inflight' = inflight \ {q}
    /\ repoLog' = Answered(repoLog, q, "throw", 0)
    /\ toast' = UnexpectedToast
    /\ lastDone' = Finished(inv.id, inv.form, UnexpectedToast)
    /\ loading' = FALSE
    /\ invocations' = invocations \ {inv}
    /\ UNCHANGED <<page, tz, today, hour, membersPageVars, membershipsPageVars, plansStatusVars, paymentsPageVars, planPageVars,
                   repoVars, formData, membershipPlans, nCalls>>

(***************************************************************************)
(* CreateMembershipPlan: the form and handleSubmit.                        *)
(***************************************************************************)
DurationTypes == {"day", "week", "month"}

PlanNames == {"", "Gold"}

PlanPrices == {"", "0", "499"}

ClassSelections == {<<>>, <<"Yoga">>, <<"Yoga", "HIIT">>}

\* Number(price) for the strings the price field can hold
ToNumber(str) ==
    CASE str = "" -> 0
      [] str = "0" -> 0
      [] str = "499" -> 499
      [] str = "4999" -> 4999

\* Math.ceil with the operands of the division exchanged
MathCeilOfInverse(a, b) == IF b % a = 0 THEN b \div a ELSE (b \div a) + 1

\* Math.floor in the place of Math.ceil
MathFloor(a, b) == a \div b

\* Math.ceil(a / b) for integers a >= 0 and b > 0
MathCeil(a, b) == IF a % b = 0 THEN a \div b ELSE (a \div b) + 1

\* a conversion that takes weeks for days
ToCanonicalMonthsWeekAsDay(value, type) ==
    IF type = "week" \/ type = "day" THEN MathCeil(value, 30) ELSE value

\* "Convert duration to months for DB"
ToCanonicalMonths(value, type) ==
    IF type = "week" THEN MathCeil(value * 7, 30)
    ELSE IF type = "day" THEN MathCeil(value, 30)
    ELSE value

\* the "Validate" test of handleSubmit
PlanIsValid == ~(name = "" \/ price = "" \/ Len(selectedClasses) = 0)

\* the submit button is rendered with disabled={loading}
PlanSubmitEnabled == ~planLoading

\* a row that also carries the end date shown
PlanRowWithEndDate ==
    [name |-> name,
     duration_months |-> ToCanonicalMonths(durationValue, durationType),
     price |-> ToNumber(price),
     description |-> description,
     features |-> selectedClasses,
     end_date |-> endDate]

\* the object handed to update(...) or insert([...])
PlanRow ==
    [name |-> name,
     duration_months |-> ToCanonicalMonths(durationValue, durationType),
     price |-> ToNumber(price),
     description |-> description,
     features |-> selectedClasses]

\* the one repository call of handleSubmit: update when editing, else insert
PlanRequest(id) ==
    IF editingId # ""
    THEN [by |-> "save", call |-> id, table |-> "membership_plans",
          op |-> "update", row |-> PlanRow, eq |-> editingId]
    ELSE Request("save", id, "membership_plans", "insert", PlanRow)

\* the form as it was when the call was issued, with the row it sent, the
\* stored plan it edits and the duration fields of the call before it
SavedFrom(id) ==
    <<[id |-> id, value |-> durationValue, type |-> durationType,
       editingId |-> editingId, row |-> PlanRow, endDate |-> endDate,
       classes |-> selectedClasses,
       loaded |-> (planLoad = "loaded"), touched |-> touched,
       stored |-> {p \in membership_plans : p.id = editingId},
       prev |-> IF lastSaved = <<>> THEN <<>>
                ELSE <<[value |-> lastSaved[1].value, type |-> lastSaved[1].type,
                        op |-> IF lastSaved[1].editingId = "" THEN "insert"
                               ELSE "update"]>>]>>

\* handleSubmit up to its await
CreatePlanHandleSubmit ==
    /\ page = "create-membership-plan"
    /\ PlanSubmitEnabled
    /\ nSaves < MaxSaves
    /\ nSaves' = nSaves + 1
    /\ IF ~PlanIsValid
       THEN /\ error' = "Please fill all required fields and select at least one class."
            /\ planLoading' = FALSE
            /\ UNCHANGED <<saves, inflight, repoLog, lastSaved>>
       ELSE /\ error' = ""
            /\ planLoading' = TRUE
            /\ saves' = saves \cup {nSaves + 1}
            /\ inflight' = inflight \cup {PlanRequest(nSaves + 1)}
            /\ repoLog' = Append(repoLog, LogEntry(PlanRequest(nSaves + 1)))
            /\ lastSaved' = SavedFrom(nSaves + 1)
    /\ UNCHANGED <<page, tz, today, hour, membersPageVars, membershipsPageVars, plansStatusVars, paymentsPageVars, repoVars, addMemberVars,
                   planFormVars, nEdits, success>>

\* what an update leaves of a stored row: the given columns replaced
Updated(row, patch) ==
    [row EXCEPT !.name = patch.name, !.duration_months = patch.duration_months,
                !.price = patch.price, !.description = patch.description,
                !.features = patch.features]

\* what an insert stores: the given columns, a fresh id, is_active by default
Inserted(patch, id) ==
    [id |-> id, name |-> patch.name, price |-> patch.price,
     duration_months |-> patch.duration_months,
     description |-> patch.description, features |-> patch.features,
     is_active |-> TRUE]

\* the repository call returns without an error
PlanSaveSucceeds(id, q) ==
    /\ id \in saves
    /\ q \in inflight /\ q.by = "save" /\ q.call = id
    /\ IF q.op = "update"
       THEN /\ membership_plans' =
                   {IF p.id = q.eq THEN Updated(p, q.row) ELSE p :
                        p \in membership_plans}
            /\ UNCHANGED nextId
       ELSE /\ membership_plans' =
                   membership_plans \cup {Inserted(q.row, "plan-" \o ToString(nextId))}
            /\ nextId' = nextId + 1
    /\ inflight' = inflight \ {q}
    /\ repoLog' = Answered(repoLog, q, "ok", IF q.op = "update" THEN 0 ELSE nextId)
    /\ success' = TRUE
    /\ planLoading' = FALSE
    /\ saves' = saves \ {id}
    /\ UNCHANGED <<page, tz, today, hour, membersPageVars, membershipsPageVars, plansStatusVars, paymentsPageVars, members, member_memberships,
                   addMemberVars, planFormVars, nEdits, error, nSaves, lastSaved>>

\* the repository call returns an error: its message is shown
PlanSaveFails(id, q) ==
    /\ id \in saves
    /\ q \in inflight /\ q.by = "save" /\ q.call = id
    /\ inflight' = inflight \ {q}
    /\ repoLog' = Answered(repoLog, q, "error", 0)
    /\ error' = RepositoryMessage
    /\ planLoading' = FALSE
    /\ saves' = saves \ {id}
    /\ UNCHANGED <<page, tz, today, hour, membersPageVars, membershipsPageVars, plansStatusVars, paymentsPageVars, repoVars, addMemberVars,
                   planFormVars, nEdits, success, nSaves, lastSaved>>

\* the awaited call rejects instead of returning: handleSubmit has no try,
\* so none of its remaining lines runs; the repository is left as it was
PlanSaveThrows(id, q) ==
    /\ id \in saves
    /\ q \in inflight /\ q.by = "save" /\ q.call = id
    /\ inflight' = inflight \ {q}
    /\ repoLog' = Answered(repoLog, q, "throw", 0)
    /\ saves' = saves \ {id}
    /\ UNCHANGED <<page, tz, today, hour, membersPageVars, membershipsPageVars,
                   plansStatusVars, paymentsPageVars, repoVars, addMemberVars,
                   planFormVars, nEdits, planLoading, error, success, nSaves,
                   lastSaved>>

\* the Memberships page is mounted: its effect issues the select of all plans
FetchPlans == Request("fetchPlans", 0, "membership_plans", "select", <<>>)

\* setTimeout(() => navigate("/memberships"), 1200) fires: the editor is
\* unmounted (a save still awaited goes on without it) and Memberships mounts
NavigateToMemberships ==
    /\ page = "create-membership-plan"
    /\ success
    /\ page' = "memberships"
    /\ saves' = {}
    /\ plans' = {}
    /\ plansLoading' = TRUE
    /\ plansError' = ""
    /\ inflight' = {q \in inflight : q.by # "loadPlan"} \cup {FetchPlans}
    /\ repoLog' = Append(repoLog, LogEntry(FetchPlans))
    /\ UNCHANGED <<tz, today, hour, membersPageVars, repoVars, addMemberVars,
                   planFormVars, nEdits, planLoading, error, success, nSaves,
                   lastSaved, dialogToast, nDialogs, paymentsPageVars>>

\* a save whose editor was unmounted returns: the repository takes the write,
\* no component is left to show the outcome
UnmountedSaveSucceeds(q) ==
    /\ q \in inflight /\ q.by = "save" /\ q.call \notin saves
    /\ IF q.op = "update"
       THEN /\ membership_plans' =
                   {IF p.id = q.eq THEN Updated(p, q.row) ELSE p :
                        p \in membership_plans}
            /\ UNCHANGED nextId
       ELSE /\ membership_plans' =
                   membership_plans \cup {Inserted(q.row, "plan-" \o ToString(nextId))}
            /\ nextId' = nextId + 1
    /\ inflight' = inflight \ {q}
    /\ repoLog' = Answered(repoLog, q, "ok", IF q.op = "update" THEN 0 ELSE nextId)
    /\ UNCHANGED <<page, tz, today, hour, membersPageVars, membershipsPageVars, plansStatusVars, paymentsPageVars,
                   members, member_memberships, addMemberVars, planPageVars>>

UnmountedSaveFails(q) ==
    /\ q \in inflight /\ q.by = "save" /\ q.call \notin saves
    /\ inflight' = inflight \ {q}
    /\ repoLog' = Answered(repoLog, q, "error", 0)
    /\ UNCHANGED <<page, tz, today, hour, membersPageVars, membershipsPageVars, plansStatusVars, paymentsPageVars,
                   repoVars, addMemberVars, planPageVars>>

(***************************************************************************)
(* CreateMembershipPlan: editing the form, loadPlan and the end date shown. *)
(***************************************************************************)
\* the classes offered as badges (two of the seven)
FITNESS_CLASSES == {"Yoga", "HIIT"}

\* Number(e.target.value) for what can be typed into the duration field;
\* the emptied field gives 0
TypedValues == {0, 1, 30, 31}

\* "Calculate end date based on duration": the date shown for value and type
PreviewEndDate(value, type) ==
    LET start == Now
        end == IF type = "day" THEN SetDate(start, GetDate(start) + value)
               ELSE IF type = "week" THEN SetDate(start, GetDate(start) + value * 7)
               ELSE IF type = "month" THEN SetMonth(start, GetMonth(start) + value)
               ELSE start
    IN  ToISODate(end)

\* the state handleDurationChange leaves
DurationChange(value, type) ==
    /\ durationValue' = value
    /\ durationType' = type
    /\ endDate' = PreviewEndDate(value, type)

\* the user edits the number field (the type stays) or picks a type (the
\* value stays); either way handleDurationChange runs
handleDurationChange(value, type) ==
    /\ page = "create-membership-plan"
    /\ value = durationValue \/ type = durationType
    /\ nEdits < MaxEdits
    /\ nEdits' = nEdits + 1
    /\ DurationChange(value, type)
    /\ touched' = IF planLoad = "loaded"
                  THEN touched \cup (IF value # durationValue THEN {"value"} ELSE {})
                               \cup (IF type # durationType THEN {"type"} ELSE {})
                  ELSE touched
    /\ UNCHANGED <<page, tz, today, hour, membersPageVars, membershipsPageVars, plansStatusVars, paymentsPageVars,
                   repoVars, repoLog, inflight, addMemberVars, editingId, name,
                   price, selectedClasses, description, planLoad, planLoading,
                   error, success, saves, nSaves, lastSaved>>

\* prev.filter(c => c !== cls)
Without(prev, cls) == SelectSeq(prev, LAMBDA c : c # cls)

\* a toggle that puts a newly selected class first
ToggleClassInFront(prev, cls) ==
    IF cls \in Range(prev) THEN Without(prev, cls) ELSE <<cls>> \o prev

\* prev.includes(cls) ? prev.filter(c => c !== cls) : [...prev, cls]
ToggleClass(prev, cls) ==
    IF cls \in Range(prev) THEN Without(prev, cls) ELSE Append(prev, cls)

\* a badge is clicked
handleClassSelect(cls) ==
    /\ page = "create-membership-plan"
    /\ nEdits < MaxEdits
    /\ nEdits' = nEdits + 1
    /\ selectedClasses' = ToggleClass(selectedClasses, cls)
    /\ touched' = IF planLoad = "loaded" THEN touched \cup {"classes"} ELSE touched
    /\ UNCHANGED <<page, tz, today, hour, membersPageVars, membershipsPageVars, plansStatusVars, paymentsPageVars,
                   repoVars, repoLog, inflight, addMemberVars, editingId, name,
                   durationType, durationValue, price, endDate, description,
                   planLoad, planLoading, error, success, saves, nSaves,
                   lastSaved>>

\* the select loadPlan issues when the editor is mounted with an id
LoadPlanRequest(id) ==
    [by |-> "loadPlan", call |-> 0, table |-> "membership_plans",
     op |-> "select", row |-> <<>>, eq |-> id]

\* data.price.toString()
PriceToString(n) == ToString(n)

\* a loadPlan that shows the stored months as days
LoadedDurationTypeDay == "day"

\* setDurationType("month")
LoadedDurationType == "month"

\* the select returns the row: the form is filled from it
LoadPlanSucceeds(q) ==
    /\ page = "create-membership-plan"
    /\ q \in inflight /\ q.by = "loadPlan" /\ q.eq = editingId
    /\ \E data \in membership_plans :
           /\ data.id = q.eq
           /\ name' = data.name
           /\ price' = PriceToString(data.price)
           /\ description' = data.description
           /\ selectedClasses' = data.features
           /\ DurationChange(data.duration_months, LoadedDurationType)
    /\ planLoad' = "loaded"
    /\ touched' = {}
    /\ inflight' = inflight \ {q}
    /\ repoLog' = Answered(repoLog, q, "ok", 0)
    /\ UNCHANGED <<page, tz, today, hour, membersPageVars, membershipsPageVars, plansStatusVars, paymentsPageVars,
                   repoVars, addMemberVars, editingId, nEdits, planLoading,
                   error, success, saves, nSaves, lastSaved>>

\* the select returns an error: the form keeps what it holds
LoadPlanFails(q) ==
    /\ page = "create-membership-plan"
    /\ q \in inflight /\ q.by = "loadPlan" /\ q.eq = editingId
    /\ error' = "Failed to load plan data"
    /\ planLoad' = "failed"
    /\ inflight' = inflight \ {q}
    /\ repoLog' = Answered(repoLog, q, "error", 0)
    /\ UNCHANGED <<page, tz, today, hour, membersPageVars, membershipsPageVars, plansStatusVars, paymentsPageVars,
                   repoVars, addMemberVars, editingId, name, durationType,
                   durationValue, price, selectedClasses, endDate, description,
                   touched, nEdits, planLoading, success, saves, nSaves,
                   lastSaved>>

\* a form that is submitted whatever its fields hold
FormAlwaysValid == TRUE

\* what the browser checks before it raises the submit event: the name and
\* the price are required, the duration has min 1 and the price min 0
FormCheckValidity ==
    /\ name # ""
    /\ durationValue >= 1
    /\ price # "" /\ ToNumber(price) >= 0

\* the submit button is clicked and the browser lets the event through
SubmitPlanForm == FormCheckValidity /\ CreatePlanHandleSubmit

\* the editor is opened at /create-membership-plan?id=...: a fresh component,
\* whose effect starts loadPlan
OpenPlanForEdit(id) ==
    /\ page = "memberships"
    /\ page' = "create-membership-plan"
    /\ editingId' = id
    /\ name' = "" /\ price' = "" /\ description' = ""
    /\ durationType' = "month" /\ durationValue' = 1 /\ endDate' = NoDate
    /\ selectedClasses' = <<>>
    /\ planLoad' = "pending" /\ touched' = {}
    /\ planLoading' = FALSE /\ error' = "" /\ success' = FALSE
    /\ saves' = {}
    /\ plans' = {}
    /\ inflight' = {q \in inflight : q.by # "fetchPlans"} \cup {LoadPlanRequest(id)}
    /\ repoLog' = Append(repoLog, LogEntry(LoadPlanRequest(id)))
    /\ UNCHANGED <<tz, today, hour, membersPageVars, repoVars, addMemberVars,
                   nEdits, nSaves, lastSaved, dialogToast, nDialogs,
                   plansStatusVars, paymentsPageVars>>

(***************************************************************************)
(* Memberships: the plan cards and the dialog's handleSubmit.              *)
(***************************************************************************)
mapDbPlan(db) ==
    [id |-> db.id, name |-> db.name, price |-> db.price,
     duration_months |-> db.duration_months, features |-> db.features,
     memberCount |-> IF "member_count" \in DOMAIN db THEN db.member_count ELSE 0,
     isActive |-> db.is_active]

\* the select of the mount effect returns the rows
PlansFetched(q) ==
    /\ page = "memberships"
    /\ q \in inflight /\ q.by = "fetchPlans"
    /\ plans' = {mapDbPlan(db) : db \in membership_plans}
    /\ plansLoading' = FALSE
    /\ inflight' = inflight \ {q}
    /\ repoLog' = Answered(repoLog, q, "ok", 0)
    /\ UNCHANGED <<page, tz, today, hour, membersPageVars, repoVars,
                   addMemberVars, planPageVars, dialogToast, nDialogs,
                   plansError, paymentsPageVars>>

\* the select returns an error: its message is shown, no cards
PlansFetchFails(q) ==
    /\ page = "memberships"
    /\ q \in inflight /\ q.by = "fetchPlans"
    /\ plansError' = RepositoryMessage
    /\ plansLoading' = FALSE
    /\ inflight' = inflight \ {q}
    /\ repoLog' = Answered(repoLog, q, "error", 0)
    /\ UNCHANGED <<page, tz, today, hour, membersPageVars, repoVars,
                   addMemberVars, planPageVars, plans, dialogToast, nDialogs,
                   paymentsPageVars>>

\* what the dialog can hold when it is submitted
DialogInputs ==
    [name : {"", "Gold"}, price : {"", "0", "-5"}, duration : {"", "1 month"},
     features : {"", "Yoga, HIIT"}]

\* parseFloat(formData.price)
ParseFloat(str) ==
    CASE str = "0" -> 0
      [] str = "-5" -> -5
      [] str = "499" -> 499

\* formData.features.split(',').map(f => f.trim()).filter(f => f)
FeaturesArray(str) ==
    CASE str = "" -> <<>>
      [] str = "Yoga, HIIT" -> <<"Yoga", "HIIT">>

\* Math.max(...plans.map(p => p.id)) + 1: the ids are not numbers
NewPlanId == IF plans = {} THEN "-Infinity" ELSE "NaN"

PlanCreatedToast(f) ==
    [title |-> "Plan Created",
     description |-> f.name \o " has been created successfully."]

\* the dialog's handleSubmit: editingPlan is never set, so it always creates
MembershipsHandleSubmit(f) ==
    /\ page = "memberships"
    /\ nDialogs < MaxDialogs
    /\ nDialogs' = nDialogs + 1
    /\ IF f.name = "" \/ f.price = "" \/ f.duration = ""
       THEN /\ dialogToast' = ValidationToast
            /\ UNCHANGED plans
       ELSE /\ plans' = plans \cup
                   {[id |-> NewPlanId, name |-> f.name, price |-> ParseFloat(f.price),
                     duration |-> f.duration, features |-> FeaturesArray(f.features),
                     memberCount |-> 0, isActive |-> TRUE]}
            /\ dialogToast' = PlanCreatedToast(f)
    /\ UNCHANGED <<page, tz, today, hour, membersPageVars, repoVars, repoLog,
                   inflight, addMemberVars, planPageVars, plansStatusVars,
                   paymentsPageVars>>

(***************************************************************************)
(* Members: addMember and mapDbMember.                                     *)
(***************************************************************************)
\* what a caller can hand to addMember; a name is its words, and phone, plan,
\* join_date, expiry_date and payment_status are passed through untouched
NewMembers ==
    [name : {<<"Ann", "Lee">>}, email : {"ann@gym"}, status : {"Active", "Paused"}]

RECURSIVE JoinWords(_)
JoinWords(ws) ==
    IF ws = <<>> THEN ""
    ELSE IF Len(ws) = 1 THEN ws[1]
    ELSE ws[1] \o " " \o JoinWords(Tail(ws))

\* "Map UI fields to DB fields"
DbMember(newMember) ==
    [id |-> 0, first_name |-> newMember.name[1],
     last_name |-> JoinWords(Tail(newMember.name)),
     email |-> newMember.email, status |-> newMember.status]

\* expiry_date and payment_status are the row's columns, '' when it has none
mapDbMember(db) ==
    [id |-> db.id, name |-> db.first_name \o " " \o db.last_name,
     email |-> db.email, status |-> db.status,
     expiry_date |-> IF "expiry_date" \in DOMAIN db THEN db.expiry_date ELSE NoDate,
     payment_status |-> IF "payment_status" \in DOMAIN db THEN db.payment_status
                        ELSE ""]

\* addMember up to its await
addMember(newMember) ==
    /\ page = "members"
    /\ nAdds < MaxAdds
    /\ nAdds' = nAdds + 1
    /\ membersLoading' = TRUE
    /\ adds' = adds \cup {nAdds + 1}
    /\ LET q == Request("addMember", nAdds + 1, "members", "insert", DbMember(newMember))
       IN  /\ inflight' = inflight \cup {q}
           /\ repoLog' = Append(repoLog, LogEntry(q))
    /\ UNCHANGED <<page, tz, today, hour, membershipsPageVars, plansStatusVars, paymentsPageVars, repoVars, addMemberVars, planPageVars,
                   memberList, membersError>>

\* the insert returns the stored rows
AddMemberSucceeds(a, q) ==
    /\ a \in adds
    /\ q \in inflight /\ q.by = "addMember" /\ q.call = a
    /\ LET row == [q.row EXCEPT !.id = nextId]
       IN  /\ members' = members \cup {row}
           /\ memberList' = Append(memberList, mapDbMember(row))
    /\ nextId' = nextId + 1
    /\ inflight' = inflight \ {q}
    /\ repoLog' = Answered(repoLog, q, "ok", nextId)
    /\ membersLoading' = FALSE
    /\ adds' = adds \ {a}
    /\ UNCHANGED <<page, tz, today, hour, membershipsPageVars, plansStatusVars, paymentsPageVars, membership_plans, member_memberships,
                   addMemberVars, planPageVars, membersError, nAdds>>

\* the insert returns an error: its message is shown
AddMemberFails(a, q) ==
    /\ a \in adds
    /\ q \in inflight /\ q.by = "addMember" /\ q.call = a
    /\ inflight' = inflight \ {q}
    /\ repoLog' = Answered(repoLog, q, "error", 0)
    /\ membersError' = RepositoryMessage
    /\ membersLoading' = FALSE
    /\ adds' = adds \ {a}
    /\ UNCHANGED <<page, tz, today, hour, membershipsPageVars, plansStatusVars, paymentsPageVars, repoVars, addMemberVars, planPageVars,
                   memberList, nAdds>>

(***************************************************************************)
(* Members: the list fetched on mount and deleteMember.                    *)
(***************************************************************************)
\* the rows of a select, in the order of their ids
RECURSIVE RowsById(_)
RowsById(rows) ==
    IF rows = {} THEN <<>>
    ELSE LET first == CHOOSE r \in rows : \A o \in rows : r.id <= o.id
         IN  <<first>> \o RowsById(rows \ {first})

\* the select of all members the mount effect of the Members page issues
FetchMembers == Request("fetchMembers", 0, "members", "select", <<>>)

\* AddMember navigates to Members when handleSubmit is done, or the user
\* follows the sidebar link while no enrolment is running
OpenMembers ==
    /\ page = "add-member"
    /\ invocations = {}
    /\ page' = "members"
    /\ memberList' = <<>>
    /\ membersLoading' = TRUE
    /\ membersError' = ""
    /\ inflight' = inflight \cup {FetchMembers}
    /\ repoLog' = Append(repoLog, LogEntry(FetchMembers))
    /\ UNCHANGED <<tz, today, hour, membershipsPageVars, plansStatusVars,
                   paymentsPageVars, repoVars, addMemberVars, planPageVars,
                   adds, nAdds>>

\* the select returns the rows
MembersFetched(q) ==
    /\ page = "members"
    /\ q \in inflight /\ q.by = "fetchMembers"
    /\ memberList' = LET data == RowsById(members)
                   IN  [i \in DOMAIN data |-> mapDbMember(data[i])]
    /\ membersLoading' = FALSE
    /\ inflight' = inflight \ {q}
    /\ repoLog' = Answered(repoLog, q, "ok", 0)
    /\ UNCHANGED <<page, tz, today, hour, membershipsPageVars, plansStatusVars,
                   paymentsPageVars, repoVars, addMemberVars, planPageVars,
                   membersError, adds, nAdds>>

\* the select returns an error: its message is shown, the list stays empty
MembersFetchFails(q) ==
    /\ page = "members"
    /\ q \in inflight /\ q.by = "fetchMembers"
    /\ membersError' = RepositoryMessage
    /\ membersLoading' = FALSE
    /\ inflight' = inflight \ {q}
    /\ repoLog' = Answered(repoLog, q, "error", 0)
    /\ UNCHANGED <<page, tz, today, hour, membershipsPageVars, plansStatusVars,
                   paymentsPageVars, repoVars, addMemberVars, planPageVars,
                   memberList, adds, nAdds>>

\* supabase.from(table).delete().eq("id", id)
DeleteRequest(by, table, id) ==
    [by |-> by, call |-> id, table |-> table, op |-> "delete", row |-> <<>>,
     eq |-> id]

\* prev.filter(m => m.id !== id)
WithoutId(list, id) == SelectSeq(list, LAMBDA m : m.id # id)

\* the trash button of a member card: deleteMember up to its await
deleteMember(id) ==
    /\ page = "members"
    /\ id \in {m.id : m \in Range(memberList)}
    /\ ~ \E q \in inflight : q.by = "deleteMember" /\ q.eq = id
    /\ membersLoading' = TRUE
    /\ LET q == DeleteRequest("deleteMember", "members", id)
       IN  /\ inflight' = inflight \cup {q}
           /\ repoLog' = Append(repoLog, LogEntry(q))
    /\ UNCHANGED <<page, tz, today, hour, membershipsPageVars, plansStatusVars,
                   paymentsPageVars, repoVars, addMemberVars, planPageVars,
                   memberList, membersError, adds, nAdds>>

\* the delete returns without an error: the repository drops the member row
\* (and nothing else), the list drops the card
DeleteMemberSucceeds(q) ==
    /\ q \in inflight /\ q.by = "deleteMember"
    /\ members' = {m \in members : m.id # q.eq}
    /\ inflight' = inflight \ {q}
    /\ repoLog' = Answered(repoLog, q, "ok", 0)
    /\ IF page = "members"
       THEN /\ memberList' = WithoutId(memberList, q.eq)
            /\ membersLoading' = FALSE
       ELSE UNCHANGED <<memberList, membersLoading>>
    /\ UNCHANGED <<page, tz, today, hour, membershipsPageVars, plansStatusVars,
                   paymentsPageVars, membership_plans, member_memberships,
                   nextId, addMemberVars, planPageVars, membersError, adds,
                   nAdds>>

\* the delete returns an error: the message is shown and the card is dropped
\* all the same (the filter of line 119 is not conditional on line 118)
DeleteMemberFails(q) ==
    /\ q \in inflight /\ q.by = "deleteMember"
    /\ inflight' = inflight \ {q}
    /\ repoLog' = Answered(repoLog, q, "error", 0)
    /\ IF page = "members"
       THEN /\ membersError' = RepositoryMessage
            /\ memberList' = WithoutId(memberList, q.eq)
            /\ membersLoading' = FALSE
       ELSE UNCHANGED <<membersError, memberList, membersLoading>>
    /\ UNCHANGED <<page, tz, today, hour, membershipsPageVars, plansStatusVars,
                   paymentsPageVars, repoVars, addMemberVars, planPageVars,
                   adds, nAdds>>

(***************************************************************************)
(* Memberships: deletePlan and updatePlan.                                 *)
(***************************************************************************)
\* the user follows the sidebar link to Memberships once the Members page
\* is at rest: the page mounts and its effect issues the select of all plans
OpenMemberships ==
    /\ page = "members"
    /\ inflight = {}
    /\ page' = "memberships"
    /\ plans' = {}
    /\ plansLoading' = TRUE
    /\ plansError' = ""
    /\ inflight' = {FetchPlans}
    /\ repoLog' = Append(repoLog, LogEntry(FetchPlans))
    /\ UNCHANGED <<tz, today, hour, membersPageVars, paymentsPageVars, repoVars,
                   addMemberVars, planPageVars, dialogToast, nDialogs>>

\* the trash button of a plan card: deletePlan up to its await
deletePlan(id) ==
    /\ page = "memberships"
    /\ id \in {p.id : p \in plans}
    /\ ~ \E q \in inflight : q.by = "deletePlan" /\ q.eq = id
    /\ plansLoading' = TRUE
    /\ LET q == DeleteRequest("deletePlan", "membership_plans", id)
       IN  /\ inflight' = inflight \cup {q}
           /\ repoLog' = Append(repoLog, LogEntry(q))
    /\ UNCHANGED <<page, tz, today, hour, membersPageVars, membershipsPageVars,
                   paymentsPageVars, repoVars, addMemberVars, planPageVars,
                   plansError>>

\* the delete returns without an error: the repository drops the plan row
\* (and nothing else), the page drops the card
DeletePlanSucceeds(q) ==
    /\ page = "memberships"
    /\ q \in inflight /\ q.by = "deletePlan"
    /\ membership_plans' = {p \in membership_plans : p.id # q.eq}
    /\ plans' = {p \in plans : p.id # q.eq}
    /\ plansLoading' = FALSE
    /\ inflight' = inflight \ {q}
    /\ repoLog' = Answered(repoLog, q, "ok", 0)
    /\ UNCHANGED <<page, tz, today, hour, membersPageVars, paymentsPageVars,
                   members, member_memberships, nextId, addMemberVars,
                   planPageVars, dialogToast, nDialogs, plansError>>

\* the delete returns an error: the message is shown and the card is dropped
\* all the same (the filter of line 99 is not conditional on line 98)
DeletePlanFails(q) ==
    /\ page = "memberships"
    /\ q \in inflight /\ q.by = "deletePlan"
    /\ plansError' = RepositoryMessage
    /\ plans' = {p \in plans : p.id # q.eq}
    /\ plansLoading' = FALSE
    /\ inflight' = inflight \ {q}
    /\ repoLog' = Answered(repoLog, q, "error", 0)
    /\ UNCHANGED <<page, tz, today, hour, membersPageVars, paymentsPageVars,
                   repoVars, addMemberVars, planPageVars, dialogToast, nDialogs>>

\* the updates a caller can hand to updatePlan: none (the edit button of a
\* card), or some of the fields of a plan
PlanUpdates ==
    { <<>>, [price |-> 0], [price |-> 599], [memberCount |-> 0],
      [isActive |-> FALSE], [name |-> "Gold", memberCount |-> 3],
      [name |-> "", features |-> <<>>] }

\* the column of membership_plans a field of updates is written to
DbColumn(field) ==
    CASE field = "memberCount" -> "member_count"
      [] field = "isActive" -> "is_active"
      [] OTHER -> field

\* the tests of lines 83-88: isActive when it is a boolean, features when it
\* is an array, the others when their value is truthy
PassesTest(updates, field) ==
    CASE field = "isActive" -> TRUE
      [] field = "features" -> TRUE
      [] field = "name" -> updates[field] # ""
      [] OTHER -> updates[field] # 0

\* dbUpdates: the patch handed to update()
DbUpdates(updates) ==
    LET kept == {f \in DOMAIN updates : PassesTest(updates, f)}
    IN  [c \in {DbColumn(f) : f \in kept} |->
            updates[CHOOSE f \in kept : DbColumn(f) = c]]

\* updatePlan up to its await
updatePlan(id, updates) ==
    /\ page = "memberships"
    /\ id \in {p.id : p \in plans}
    /\ ~ \E q \in inflight : q.by = "updatePlan"
    /\ Cardinality({i \in DOMAIN repoLog : repoLog[i].by = "updatePlan"}) < MaxUpdates
    /\ plansLoading' = TRUE
    /\ LET q == [by |-> "updatePlan", call |-> id, table |-> "membership_plans",
                 op |-> "update", row |-> DbUpdates(updates), eq |-> id,
                 updates |-> updates]
       IN  /\ inflight' = inflight \cup {q}
           /\ repoLog' = Append(repoLog, LogEntry(q))
    /\ UNCHANGED <<page, tz, today, hour, membersPageVars, membershipsPageVars,
                   paymentsPageVars, repoVars, addMemberVars, planPageVars,
                   plansError>>

\* the repository's update: the columns of the patch replace the row's
Patched(row, patch) ==
    [c \in DOMAIN row \cup DOMAIN patch |->
        IF c \in DOMAIN patch THEN patch[c] ELSE row[c]]

\* the update returns the stored row: the card is replaced by it
UpdatePlanSucceeds(q) ==
    /\ page = "memberships"
    /\ q \in inflight /\ q.by = "updatePlan"
    /\ \E old \in membership_plans :
        /\ old.id = q.eq
        /\ membership_plans' = (membership_plans \ {old}) \cup {Patched(old, q.row)}
        /\ plans' = {IF p.id = q.eq THEN mapDbPlan(Patched(old, q.row)) ELSE p :
                        p \in plans}
    /\ plansLoading' = FALSE
    /\ inflight' = inflight \ {q}
    /\ repoLog' = Answered(repoLog, q, "ok", 0)
    /\ UNCHANGED <<page, tz, today, hour, membersPageVars, paymentsPageVars,
                   members, member_memberships, nextId, addMemberVars,
                   planPageVars, dialogToast, nDialogs, plansError>>

\* the update returns an error: its message is shown
UpdatePlanFails(q) ==
    /\ page = "memberships"
    /\ q \in inflight /\ q.by = "updatePlan"
    /\ plansError' = RepositoryMessage
    /\ plansLoading' = FALSE
    /\ inflight' = inflight \ {q}
    /\ repoLog' = Answered(repoLog, q, "error", 0)
    /\ UNCHANGED <<page, tz, today, hour, membersPageVars, membershipsPageVars,
                   paymentsPageVars, repoVars, addMemberVars, planPageVars>>

(***************************************************************************)
(* Payments: the lists fetched on mount and the record-payment dialog.     *)
(***************************************************************************)
\* the two selects of the mount effect, awaited together by Promise.all
FetchPayments == Request("fetchPayments", 0, "payments", "select", <<>>)

FetchPayMembers == Request("fetchPayments", 0, "members", "select", <<>>)

\* Promise.all resolves: each select has returned its rows or an error
PaymentsFetched(paymentsError, membersFailed) ==
    /\ page = "payments"
    /\ {FetchPayments, FetchPayMembers} \subseteq inflight
    /\ paymentList' = IF paymentsError THEN paymentList ELSE RowsById(payments)
    /\ payMembers' = IF membersFailed THEN payMembers
                     ELSE {[id |-> m.id, name |-> m.first_name \o " " \o m.last_name] :
                               m \in members}
    /\ payError' = IF paymentsError \/ membersFailed THEN RepositoryMessage
                   ELSE payError
    /\ payLoading' = FALSE
    /\ inflight' = inflight \ {FetchPayments, FetchPayMembers}
    /\ repoLog' = Answered(Answered(repoLog, FetchPayments,
                                    IF paymentsError THEN "error" ELSE "ok", 0),
                           FetchPayMembers,
                           IF membersFailed THEN "error" ELSE "ok", 0)
    /\ UNCHANGED <<page, tz, today, hour, membersPageVars, membershipsPageVars,
                   plansStatusVars, repoVars, addMemberVars, planPageVars,
                   payments, payForm, isDialogOpen, payToast, nPays>>

\* the Record Payment button opens the dialog, Cancel closes it
SetIsDialogOpen(open) ==
    /\ page = "payments"
    /\ isDialogOpen # open
    /\ isDialogOpen' = open
    /\ UNCHANGED <<page, tz, today, hour, membersPageVars, membershipsPageVars,
                   plansStatusVars, repoVars, repoLog, inflight, addMemberVars,
                   planPageVars, payments, paymentList, payMembers, payForm,
                   payToast, payError, payLoading, nPays>>

\* what the dialog can hold when it is submitted: a member of the select (0
\* for none), an amount (the number input has no min), a method, the date
PayInputs ==
    [memberId : {0} \cup {m.id : m \in payMembers}, amount : {"", "0", "-5", "499"},
     method : {"", "Cash"}, date : {today}]

\* the browser's check of the form: amount and date are required inputs
PayFormCheckValidity(f) == f.amount # ""

\* the "Validation Error" test of line 228: "0" is a non-empty string
PayIsValid(f) == ~(f.memberId = 0 \/ f.amount = "" \/ f.method = "")

\* newPayment
NewPayment(f) ==
    [id |-> 0, member_id |-> f.memberId, amount |-> ParseFloat(f.amount),
     payment_date |-> f.date, payment_method |-> f.method,
     status |-> "Completed", created_at |-> <<today, hour>>]

\* a record-payment that writes with update instead of insert
PaymentRequestAsUpdate(id, f) ==
    [by |-> "recordPayment", call |-> id, table |-> "payments", op |-> "update",
     row |-> NewPayment(f), amount |-> f.amount]

\* supabase.from("payments").insert([newPayment]).select(), with the
\* formData.amount the rest of handleSubmit still reads
PaymentRequest(id, f) ==
    [by |-> "recordPayment", call |-> id, table |-> "payments", op |-> "insert",
     row |-> NewPayment(f), amount |-> f.amount]

PaymentRecordedToast(amount) ==
    [title |-> "Payment Recorded",
     description |-> "Payment of $" \o amount \o " has been recorded successfully."]

\* the dialog's handleSubmit up to its await
PaymentsHandleSubmit(f) ==
    /\ page = "payments"
    /\ isDialogOpen
    /\ PayFormCheckValidity(f)
    /\ nPays < MaxPays
    /\ nPays' = nPays + 1
    /\ payForm' = f
    /\ IF ~PayIsValid(f)
       THEN /\ payToast' = ValidationToast
            /\ UNCHANGED <<payLoading, inflight, repoLog>>
       ELSE /\ payLoading' = TRUE
            /\ inflight' = inflight \cup {PaymentRequest(nPays + 1, f)}
            /\ repoLog' = Append(repoLog, LogEntry(PaymentRequest(nPays + 1, f)))
            /\ UNCHANGED payToast
    /\ UNCHANGED <<page, tz, today, hour, membersPageVars, membershipsPageVars,
                   plansStatusVars, repoVars, addMemberVars, planPageVars,
                   payments, paymentList, payMembers, isDialogOpen, payError>>

\* the lines after the await, the same whatever the insert returned
AfterPaymentInsert(q) ==
    /\ payLoading' = FALSE
    /\ payToast' = PaymentRecordedToast(q.amount)
    /\ payForm' = EmptyPayForm
    /\ isDialogOpen' = FALSE

\* the insert returns the stored row: it is put in front of the list
RecordPaymentSucceeds(q) ==
    /\ page = "payments"
    /\ q \in inflight /\ q.by = "recordPayment"
    /\ LET row == [q.row EXCEPT !.id = nextId]
       IN  /\ payments' = payments \cup {row}
           /\ paymentList' = <<row>> \o paymentList
    /\ nextId' = nextId + 1
    /\ inflight' = inflight \ {q}
    /\ repoLog' = Answered(repoLog, q, "ok", nextId)
    /\ AfterPaymentInsert(q)
    /\ UNCHANGED <<page, tz, today, hour, membersPageVars, membershipsPageVars,
                   plansStatusVars, membership_plans, members,
                   member_memberships, addMemberVars, planPageVars, payMembers,
                   payError, nPays>>

\* the insert returns an error: its message is shown, and so is the rest
RecordPaymentFails(q) ==
    /\ page = "payments"
    /\ q \in inflight /\ q.by = "recordPayment"
    /\ payError' = RepositoryMessage
    /\ inflight' = inflight \ {q}
    /\ repoLog' = Answered(repoLog, q, "error", 0)
    /\ AfterPaymentInsert(q)
    /\ UNCHANGED <<page, tz, today, hour, membersPageVars, membershipsPageVars,
                   plansStatusVars, repoVars, addMemberVars, planPageVars,
                   payments, paymentList, payMembers, nPays>>

(***************************************************************************)
(* The specification.                                                      *)
(***************************************************************************)
Init ==
    /\ page \in {"add-member", "create-membership-plan", "members"}
    /\ tz \in TimeZones
    /\ today = <<2024, 5, 31>>
    /\ hour = 12
    /\ membership_plans = InitialPlans
    /\ members = {}
    /\ member_memberships = {}
    /\ nextId = 1
    /\ repoLog = <<>>
    /\ inflight = {}
    /\ formData = EmptyForm
    /\ loading = FALSE
    /\ membershipPlans = {p \in InitialPlans : p.is_active}
    /\ toast = NoToast
    /\ invocations = {}
    /\ nCalls = 0
    /\ lastDone = <<>>
    /\ IF page = "create-membership-plan"
       THEN /\ editingId \in {"", "plan-a"}
            /\ name \in PlanNames
            /\ durationType \in DurationTypes
            /\ durationValue \in 1..MaxDurationValue
            /\ price \in PlanPrices
            /\ selectedClasses \in ClassSelections
       ELSE /\ editingId = ""
            /\ name = ""
            /\ durationType = "month"
            /\ durationValue = 1
            /\ price = ""
            /\ selectedClasses = <<>>
    /\ endDate = NoDate
    /\ description = ""
    /\ planLoad = "idle"
    /\ touched = {}
    /\ nEdits = 0
    /\ planLoading = FALSE
    /\ error = ""
    /\ success = FALSE
    /\ saves = {}
    /\ nSaves = 0
    /\ lastSaved = <<>>
    /\ memberList = <<>>
    /\ membersLoading = FALSE
    /\ membersError = ""
    /\ adds = {}
    /\ nAdds = 0
    /\ plans = {}
    /\ dialogToast = NoToast
    /\ nDialogs = 0
    /\ plansLoading = FALSE
    /\ plansError = ""
    /\ payments = {}
    /\ paymentList = <<>>
    /\ payMembers = {}
    /\ payForm = EmptyPayForm
    /\ isDialogOpen = FALSE
    /\ payToast = NoToast
    /\ payError = ""
    /\ payLoading = FALSE
    /\ nPays = 0

Next ==
    \/ \E f \in FormInputs : handleSubmit(f)
    \/ \E inv \in invocations, q \in inflight : MemberInsertSucceeds(inv, q)
    \/ \E inv \in invocations, q \in inflight : MemberInsertFails(inv, q)
    \/ \E inv \in invocations, q \in inflight : MembershipInsertSucceeds(inv, q)
    \/ \E inv \in invocations, q \in inflight : MembershipInsertFails(inv, q)
    \/ \E inv \in invocations, q \in inflight : AwaitThrows(inv, q)
    \/ CreatePlanHandleSubmit
    \/ \E id \in saves, q \in inflight : PlanSaveSucceeds(id, q)
    \/ \E id \in saves, q \in inflight : PlanSaveFails(id, q)
    \/ \E id \in saves, q \in inflight : PlanSaveThrows(id, q)
    \/ NavigateToMemberships
    \/ \E q \in inflight : UnmountedSaveSucceeds(q)
    \/ \E q \in inflight : UnmountedSaveFails(q)
    \/ \E q \in inflight : PlansFetched(q)
    \/ \E q \in inflight : PlansFetchFails(q)
    \/ \E newMember \in NewMembers : addMember(newMember)
    \/ \E a \in adds, q \in inflight : AddMemberSucceeds(a, q)
    \/ \E a \in adds, q \in inflight : AddMemberFails(a, q)

Spec == Init /\ [][Next]_vars

(***************************************************************************)
(* The plan editor with every edit of its form.  The editor is mounted     *)
(* either empty or on one of the initial plans; after a save it can be     *)
(* opened again on a plan created meanwhile.                               *)
(***************************************************************************)
EditorInit ==
    /\ page = "create-membership-plan"
    /\ tz = 0
    /\ today = <<2024, 5, 31>>
    /\ hour = 12
    /\ membership_plans = InitialPlans
    /\ members = {}
    /\ member_memberships = {}
    /\ nextId = 1
    /\ formData = EmptyForm
    /\ loading = FALSE
    /\ membershipPlans = {}
    /\ toast = NoToast
    /\ invocations = {}
    /\ nCalls = 0
    /\ lastDone = <<>>
    /\ editingId \in {""} \cup {p.id : p \in InitialPlans}
    /\ name \in IF editingId = "" THEN PlanNames ELSE {""}
    /\ price \in IF editingId = "" THEN PlanPrices ELSE {""}
    /\ inflight = IF editingId = "" THEN {} ELSE {LoadPlanRequest(editingId)}
    /\ repoLog = IF editingId = "" THEN <<>> ELSE <<LogEntry(LoadPlanRequest(editingId))>>
    /\ planLoad = IF editingId = "" THEN "idle" ELSE "pending"
    /\ durationType = "month"
    /\ durationValue = 1
    /\ selectedClasses = <<>>
    /\ endDate = NoDate
    /\ description = ""
    /\ touched = {}
    /\ nEdits = 0
    /\ planLoading = FALSE
    /\ error = ""
    /\ success = FALSE
    /\ saves = {}
    /\ nSaves = 0
    /\ lastSaved = <<>>
    /\ memberList = <<>>
    /\ membersLoading = FALSE
    /\ membersError = ""
    /\ adds = {}
    /\ nAdds = 0
    /\ plans = {}
    /\ dialogToast = NoToast
    /\ nDialogs = 0
    /\ plansLoading = FALSE
    /\ plansError = ""
    /\ payments = {}
    /\ paymentList = <<>>
    /\ payMembers = {}
    /\ payForm = EmptyPayForm
    /\ isDialogOpen = FALSE
    /\ payToast = NoToast
    /\ payError = ""
    /\ payLoading = FALSE
    /\ nPays = 0

EditorNext ==
    \/ \E value \in TypedValues, type \in DurationTypes : handleDurationChange(value, type)
    \/ \E cls \in FITNESS_CLASSES : handleClassSelect(cls)
    \/ \E q \in inflight : LoadPlanSucceeds(q)
    \/ \E q \in inflight : LoadPlanFails(q)
    \/ SubmitPlanForm
    \/ \E id \in saves, q \in inflight : PlanSaveSucceeds(id, q)
    \/ \E id \in saves, q \in inflight : PlanSaveFails(id, q)
    \/ \E id \in saves, q \in inflight : PlanSaveThrows(id, q)
    \/ NavigateToMemberships
    \/ \E q \in inflight : UnmountedSaveSucceeds(q)
    \/ \E q \in inflight : UnmountedSaveFails(q)
    \/ \E q \in inflight : PlansFetched(q)
    \/ \E q \in inflight : PlansFetchFails(q)
    \/ \E id \in {p.id : p \in membership_plans} \ {p.id : p \in InitialPlans} :
           OpenPlanForEdit(id)

EditorSpec == EditorInit /\ [][EditorNext]_vars

(***************************************************************************)
(* The Memberships page on its own: the cards fetched and its dialog.      *)
(***************************************************************************)
MembershipsInit ==
    /\ page = "memberships"
    /\ tz = 0
    /\ today = <<2024, 5, 31>>
    /\ hour = 12
    /\ membership_plans \in {{}, InitialPlans}
    /\ members = {}
    /\ member_memberships = {}
    /\ nextId = 1
    /\ repoLog = <<LogEntry(FetchPlans)>>
    /\ inflight = {FetchPlans}
    /\ formData = EmptyForm
    /\ loading = FALSE
    /\ membershipPlans = {}
    /\ toast = NoToast
    /\ invocations = {}
    /\ nCalls = 0
    /\ lastDone = <<>>
    /\ editingId = ""
    /\ name = ""
    /\ durationType = "month"
    /\ durationValue = 1
    /\ price = ""
    /\ selectedClasses = <<>>
    /\ endDate = NoDate
    /\ description = ""
    /\ planLoad = "idle"
    /\ touched = {}
    /\ nEdits = 0
    /\ planLoading = FALSE
    /\ error = ""
    /\ success = FALSE
    /\ saves = {}
    /\ nSaves = 0
    /\ lastSaved = <<>>
    /\ memberList = <<>>
    /\ membersLoading = FALSE
    /\ membersError = ""
    /\ adds = {}
    /\ nAdds = 0
    /\ plans = {}
    /\ dialogToast = NoToast
    /\ nDialogs = 0
    /\ plansLoading = TRUE
    /\ plansError = ""
    /\ payments = {}
    /\ paymentList = <<>>
    /\ payMembers = {}
    /\ payForm = EmptyPayForm
    /\ isDialogOpen = FALSE
    /\ payToast = NoToast
    /\ payError = ""
    /\ payLoading = FALSE
    /\ nPays = 0

MembershipsNext ==
    \/ \E q \in inflight : PlansFetched(q)
    \/ \E q \in inflight : PlansFetchFails(q)
    \/ \E f \in DialogInputs : MembershipsHandleSubmit(f)
    \/ \E id \in {p.id : p \in plans} : deletePlan(id)
    \/ \E q \in inflight : DeletePlanSucceeds(q)
    \/ \E q \in inflight : DeletePlanFails(q)
    \/ \E id \in {p.id : p \in membership_plans}, updates \in PlanUpdates :
           updatePlan(id, updates)
    \/ \E q \in inflight : UpdatePlanSucceeds(q)
    \/ \E q \in inflight : UpdatePlanFails(q)

MembershipsSpec == MembershipsInit /\ [][MembershipsNext]_vars

(***************************************************************************)
(* The end date shown by the editor, under every clock: the editor is open *)
(* and only the duration fields are edited.                                *)
(***************************************************************************)
\* the UTC dates and hours "now" is drawn from
Todays == {<<2024, 1, 30>>, <<2024, 1, 31>>, <<2024, 12, 30>>}

Hours == {0, 12, 23}

PreviewInit ==
    /\ page = "create-membership-plan"
    /\ tz \in TimeZones
    /\ today \in Todays
    /\ hour \in Hours
    /\ membership_plans = InitialPlans
    /\ members = {}
    /\ member_memberships = {}
    /\ nextId = 1
    /\ repoLog = <<>>
    /\ inflight = {}
    /\ formData = EmptyForm
    /\ loading = FALSE
    /\ membershipPlans = {}
    /\ toast = NoToast
    /\ invocations = {}
    /\ nCalls = 0
    /\ lastDone = <<>>
    /\ editingId = ""
    /\ name = ""
    /\ durationType = "month"
    /\ durationValue = 1
    /\ price = ""
    /\ selectedClasses = <<>>
    /\ endDate = NoDate
    /\ description = ""
    /\ planLoad = "idle"
    /\ touched = {}
    /\ nEdits = 0
    /\ planLoading = FALSE
    /\ error = ""
    /\ success = FALSE
    /\ saves = {}
    /\ nSaves = 0
    /\ lastSaved = <<>>
    /\ memberList = <<>>
    /\ membersLoading = FALSE
    /\ membersError = ""
    /\ adds = {}
    /\ nAdds = 0
    /\ plans = {}
    /\ dialogToast = NoToast
    /\ nDialogs = 0
    /\ plansLoading = FALSE
    /\ plansError = ""
    /\ payments = {}
    /\ paymentList = <<>>
    /\ payMembers = {}
    /\ payForm = EmptyPayForm
    /\ isDialogOpen = FALSE
    /\ payToast = NoToast
    /\ payError = ""
    /\ payLoading = FALSE
    /\ nPays = 0

PreviewNext ==
    \E value \in TypedValues, type \in DurationTypes : handleDurationChange(value, type)

PreviewSpec == PreviewInit /\ [][PreviewNext]_vars

(***************************************************************************)
(* The front desk at work: members are enrolled on the AddMember page,     *)
(* then the Members page lists them and deletes some, then the Memberships *)
(* page deletes plans.                                                     *)
(***************************************************************************)
\* the drafts submitted: complete but for the plan, start date left empty
EnrolForms ==
    {f \in FormInputs : /\ f.firstName # "" /\ f.lastName # "" /\ f.email # ""
                        /\ f.startDate = NoDate}

DeskInit == Init /\ page = "add-member" /\ tz = 0

DeskNext ==
    \/ \E f \in EnrolForms : handleSubmit(f)
    \/ \E inv \in invocations, q \in inflight : MemberInsertSucceeds(inv, q)
    \/ \E inv \in invocations, q \in inflight : MemberInsertFails(inv, q)
    \/ \E inv \in invocations, q \in inflight : MembershipInsertSucceeds(inv, q)
    \/ \E inv \in invocations, q \in inflight : MembershipInsertFails(inv, q)
    \/ \E inv \in invocations, q \in inflight : AwaitThrows(inv, q)
    \/ OpenMembers
    \/ \E q \in inflight : MembersFetched(q)
    \/ \E q \in inflight : MembersFetchFails(q)
    \/ \E id \in {m.id : m \in Range(memberList)} : deleteMember(id)
    \/ \E q \in inflight : DeleteMemberSucceeds(q)
    \/ \E q \in inflight : DeleteMemberFails(q)
    \/ OpenMemberships
    \/ \E q \in inflight : PlansFetched(q)
    \/ \E q \in inflight : PlansFetchFails(q)
    \/ \E id \in {p.id : p \in plans} : deletePlan(id)
    \/ \E q \in inflight : DeletePlanSucceeds(q)
    \/ \E q \in inflight : DeletePlanFails(q)

DeskSpec == DeskInit /\ [][DeskNext]_vars

(***************************************************************************)
(* The Payments page, mounted with its two selects in flight; the          *)
(* repository holds no member or the one member an enrolment left.         *)
(***************************************************************************)
\* the member row an enrolment of Ann Lee stored
EnrolledMember ==
    [id |-> 1, first_name |-> "Ann", last_name |-> "Lee", email |-> "ann@gym",
     status |-> "active"]

PaymentsInit ==
    /\ page = "payments"
    /\ tz = 0
    /\ today = <<2024, 5, 31>>
    /\ hour = 12
    /\ membership_plans = InitialPlans
    /\ members \in {{}, {EnrolledMember}}
    /\ member_memberships = {}
    /\ nextId = 2
    /\ repoLog = <<LogEntry(FetchPayments), LogEntry(FetchPayMembers)>>
    /\ inflight = {FetchPayments, FetchPayMembers}
    /\ formData = EmptyForm
    /\ loading = FALSE
    /\ membershipPlans = {p \in InitialPlans : p.is_active}
    /\ toast = NoToast
    /\ invocations = {}
    /\ nCalls = 0
    /\ lastDone = <<>>
    /\ editingId = ""
    /\ name = ""
    /\ durationType = "month"
    /\ durationValue = 1
    /\ price = ""
    /\ selectedClasses = <<>>
    /\ endDate = NoDate
    /\ description = ""
    /\ planLoad = "idle"
    /\ touched = {}
    /\ nEdits = 0
    /\ planLoading = FALSE
    /\ error = ""
    /\ success = FALSE
    /\ saves = {}
    /\ nSaves = 0
    /\ lastSaved = <<>>
    /\ memberList = <<>>
    /\ membersLoading = FALSE
    /\ membersError = ""
    /\ adds = {}
    /\ nAdds = 0
    /\ plans = {}
    /\ dialogToast = NoToast
    /\ nDialogs = 0
    /\ plansLoading = FALSE
    /\ plansError = ""
    /\ payments = {}
    /\ paymentList = <<>>
    /\ payMembers = {}
    /\ payForm = EmptyPayForm
    /\ isDialogOpen = FALSE
    /\ payToast = NoToast
    /\ payError = ""
    /\ payLoading = TRUE
    /\ nPays = 0

PaymentsNext ==
    \/ \E paymentsError, membersFailed \in BOOLEAN :
           PaymentsFetched(paymentsError, membersFailed)
    \/ \E open \in BOOLEAN : SetIsDialogOpen(open)
    \/ \E f \in PayInputs : PaymentsHandleSubmit(f)
    \/ \E q \in inflight : RecordPaymentSucceeds(q)
    \/ \E q \in inflight : RecordPaymentFails(q)

PaymentsSpec == PaymentsInit /\ [][PaymentsNext]_vars

(***************************************************************************)
(* Properties.                                                             *)
(***************************************************************************)
\* a draft with an empty first name, last name, email or no selected plan
MissingRequired(f) ==
    f.firstName = "" \/ f.lastName = "" \/ f.email = "" \/ f.membershipPlan = ""

\* the log positions of the calls issued by invocation c of operation by
CallLog(by, c) == {i \in DOMAIN repoLog : repoLog[i].by = by /\ repoLog[i].call = c}

Issued(by, c, table, op) ==
    {i \in CallLog(by, c) : repoLog[i].table = table /\ repoLog[i].op = op}

Running == {inv.id : inv \in invocations}

\* C1: an enroll call whose draft misses a required field ends, in the step
\* that starts it, with the validation toast; it issues no repository call
\* and leaves the repository as it was.
C1_ValidationBeforeIO ==
    [][ (nCalls' = nCalls + 1 /\ MissingRequired(formData'))
            => /\ toast' = ValidationToast
               /\ lastDone' = Finished(nCalls', formData', ValidationToast)
               /\ UNCHANGED <<members, member_memberships, membership_plans,
                              nextId, repoLog, inflight, invocations>> ]_vars

C1_Witness ==
    /\ lastDone # <<>>
    /\ lastDone[1].form.email = "" /\ lastDone[1].form.firstName # ""
    /\ lastDone[1].form.lastName # "" /\ lastDone[1].form.membershipPlan # ""
    /\ lastDone[1].toast = ValidationToast
    /\ CallLog("enroll", lastDone[1].id) = {}

\* C2: when the member insert of a call returned a row and its membership
\* insert returned an error, the call reports the warning, the member row it
\* created is in the repository, and no delete on members was ever issued.
C2_WarningKeepsMember ==
    \A c \in 1..nCalls :
        \A i \in Issued("enroll", c, "members", "insert") :
            \A j \in Issued("enroll", c, "member_memberships", "insert") :
                (repoLog[i].result = "ok" /\ repoLog[j].result = "error")
                    => /\ \E m \in members : m.id = repoLog[i].rowId
                       /\ \A k \in DOMAIN repoLog :
                              ~(repoLog[k].table = "members" /\ repoLog[k].op = "delete")
                       /\ c \notin Running
                       /\ (lastDone # <<>> /\ lastDone[1].id = c)
                              => lastDone[1].toast = WarningToast

C2_Witness ==
    /\ lastDone # <<>> /\ lastDone[1].toast = WarningToast
    /\ \E i \in Issued("enroll", lastDone[1].id, "members", "insert") :
           /\ repoLog[i].result = "ok"
           /\ \E m \in members : m.id = repoLog[i].rowId
           /\ \A a \in member_memberships : a.member_id # repoLog[i].rowId

\* C3: when the member insert of a call returned an error, the call reports
\* the member-creation error, issues no membership insert, and adds no row:
\* the tables hold exactly the rows of the inserts that returned ok.
C3_MemberErrorStops ==
    /\ \A c \in 1..nCalls :
           \A i \in Issued("enroll", c, "members", "insert") :
               repoLog[i].result = "error"
                   => /\ Issued("enroll", c, "member_memberships", "insert") = {}
                      /\ repoLog[i].rowId = 0
                      /\ c \notin Running
                      /\ (lastDone # <<>> /\ lastDone[1].id = c)
                             => lastDone[1].toast = MemberErrorToast
    /\ Cardinality(members) =
           Cardinality({i \in DOMAIN repoLog : /\ repoLog[i].table = "members"
                                              /\ repoLog[i].op = "insert"
                                              /\ repoLog[i].result = "ok"})
    /\ Cardinality(member_memberships) =
           Cardinality({i \in DOMAIN repoLog : /\ repoLog[i].table = "member_memberships"
                                              /\ repoLog[i].op = "insert"
                                              /\ repoLog[i].result = "ok"})

C3_Witness ==
    /\ lastDone # <<>> /\ lastDone[1].toast = MemberErrorToast
    /\ \E i \in Issued("enroll", lastDone[1].id, "members", "insert") :
           repoLog[i].result = "error"
    /\ members = {} /\ member_memberships = {}

\* C4 as stated: every enroll call that has finished issued exactly one
\* member insert and at most one membership insert.
C4_ExactlyOneMemberInsert ==
    lastDone # <<>>
        => /\ Cardinality(Issued("enroll", lastDone[1].id, "members", "insert")) = 1
           /\ Cardinality(Issued("enroll", lastDone[1].id, "member_memberships", "insert")) <= 1

\* C4 amended: an enroll call issues at most one member insert and at most one
\* membership insert; a call that passed validation issues exactly one member
\* insert and a call rejected by validation issues none.  No insert is issued
\* twice, whatever the repository returned.
C4_InsertCounts ==
    /\ \A c \in 1..nCalls :
           /\ Cardinality(Issued("enroll", c, "members", "insert")) <= 1
           /\ Cardinality(Issued("enroll", c, "member_memberships", "insert")) <= 1
           /\ c \in Running
                  => Cardinality(Issued("enroll", c, "members", "insert")) = 1
    /\ lastDone # <<>>
           => Cardinality(Issued("enroll", lastDone[1].id, "members", "insert"))
                  = (IF MissingRequired(lastDone[1].form) THEN 0 ELSE 1)

C4_Witness ==
    /\ lastDone # <<>> /\ lastDone[1].toast = SuccessToast
    /\ Cardinality(Issued("enroll", lastDone[1].id, "members", "insert")) = 1
    /\ Cardinality(Issued("enroll", lastDone[1].id, "member_memberships", "insert")) = 1
    /\ \E i \in DOMAIN repoLog : repoLog[i].result = "error"

\* C5: the repository calls of one operation are issued one after the other:
\* an invocation never has two calls in flight, and a membership insert is
\* issued only after the member insert of the same invocation returned ok.
C5_CallsInSequence ==
    /\ \A q1, q2 \in inflight :
           (q1.by = q2.by /\ q1.call = q2.call) => q1 = q2
    /\ \A i \in DOMAIN repoLog :
           (repoLog[i].by = "enroll" /\ repoLog[i].table = "member_memberships")
               => \E j \in 1..(i - 1) :
                      /\ repoLog[j].by = "enroll" /\ repoLog[j].call = repoLog[i].call
                      /\ repoLog[j].table = "members" /\ repoLog[j].op = "insert"
                      /\ repoLog[j].result = "ok"
    /\ \A c \in 1..nSaves : Cardinality(CallLog("save", c)) <= 1

C5_Witness ==
    \E q \in inflight :
        /\ q.by = "enroll" /\ q.table = "member_memberships"
        /\ \E m \in members : m.id = q.row.member_id
        /\ Cardinality(inflight) = 1

\* C6: operations started from one form never overlap: at most one enroll and
\* at most one plan save is running, so at most one member insert and one
\* plan write are in flight.
C6_NoOverlap ==
    /\ Cardinality(invocations) <= 1
    /\ Cardinality(saves) <= 1
    /\ Cardinality({q \in inflight : q.by = "enroll" /\ q.table = "members"}) <= 1
    /\ Cardinality({q \in inflight : q.by = "save"}) <= 1
    /\ invocations # {} => loading
    /\ saves # {} => planLoading

C6_Witness ==
    /\ loading /\ Cardinality(invocations) = 1
    /\ nCalls < MaxSubmits
    /\ \E q \in inflight : q.by = "enroll" /\ q.table = "members" /\ q.op = "insert"

\* the calendar date n months after iso, a day past the end of the month
\* running over into the next month
AdvanceRollover(iso, n) == ToISODate(MakeDay(iso[1], iso[2] - 1 + n, iso[3]) * 24)

\* the calendar date n months after iso, a day past the end of the month
\* clamped to the last day of the month
AdvanceClamped(iso, n) ==
    LET first == ToISODate(MakeDay(iso[1], iso[2] - 1 + n, 1) * 24)
        last == DaysInMonth(first[1], first[2] - 1)
    IN  <<first[1], first[2], IF iso[3] > last THEN last ELSE iso[3]>>

\* C7: every membership row has its end date equal to its start date advanced
\* by the duration_months of the plan it references (under either rule for a
\* day past the end of the month).
C7_EndDateIsStartPlusDuration ==
    \A a \in member_memberships :
        \A p \in membership_plans :
            p.id = a.membership_plan_id
                => a.end_date \in {AdvanceRollover(a.start_date, p.duration_months),
                                   AdvanceClamped(a.start_date, p.duration_months)}

\* C8: every member has at most one active membership row.
C8_OneActiveMembership ==
    \A m \in members :
        Cardinality({a \in member_memberships : a.member_id = m.id /\ a.is_active}) <= 1

C8_Witness ==
    /\ Cardinality(members) = 2
    /\ \A m \in members :
           Cardinality({a \in member_memberships : a.member_id = m.id /\ a.is_active}) = 1

\* C9: every member row carries a status that is one of Active, Expiring and
\* Expired.
C9_StatusIsDerived ==
    \A m \in members : m.status \in {"Active", "Expiring", "Expired"}

\* the least whole number of 30-day months that covers the given days
IsCeilOfThirtieth(months, days) == 30 * (months - 1) < days /\ days <= 30 * months

\* C10: the duration_months a plan save sends, and an insert stores, is
\* ceil(value / 30) for days, ceil(value * 7 / 30) for weeks and the value
\* itself for months, for every whole value >= 1.
C10_CanonicalMonths ==
    (lastSaved # <<>> /\ lastSaved[1].value >= 1)
        => LET s == lastSaved[1]
               sent == {q.row.duration_months :
                            q \in {r \in inflight : r.by = "save" /\ r.call = s.id}}
               stored == {p.duration_months :
                              p \in {r \in membership_plans :
                                       \E i \in CallLog("save", s.id) :
                                           /\ repoLog[i].result = "ok"
                                           /\ repoLog[i].op = "insert"
                                           /\ r.id = "plan-" \o ToString(repoLog[i].rowId)}}
           IN  \A m \in {s.row.duration_months} \cup sent \cup stored :
                   CASE s.type = "day" -> IsCeilOfThirtieth(m, s.value)
                     [] s.type = "week" -> IsCeilOfThirtieth(m, s.value * 7)
                     [] s.type = "month" -> m = s.value

C10_Witness ==
    /\ lastSaved # <<>>
    /\ lastSaved[1].type = "week" /\ lastSaved[1].value = 5
    /\ \E p \in membership_plans : p.id \notin {q.id : q \in InitialPlans} /\ p.duration_months = 2

\* C11: for a fixed unit the conversion never decreases when the value grows:
\* the months a save sent for its value are at least the months of every
\* smaller value and at most the months of every larger value.
C11_Monotone ==
    lastSaved # <<>>
        => LET s == lastSaved[1]
           IN  \A v \in 1..MaxDurationValue :
                   /\ v <= s.value
                          => ToCanonicalMonths(v, s.type) <= s.row.duration_months
                   /\ s.value <= v
                          => s.row.duration_months <= ToCanonicalMonths(v, s.type)

C11_Witness ==
    /\ lastSaved # <<>>
    /\ lastSaved[1].type = "day" /\ lastSaved[1].value = 31
    /\ lastSaved[1].row.duration_months = 2
    /\ ToCanonicalMonths(30, "day") = 1

\* C12: whatever was typed into the duration fields and however often a plan
\* was created or edited, every plan in the repository, and every plan row
\* on its way there, has a whole number of months that is at least 1.
C12_StoredMonthsAtLeastOne ==
    /\ \A p \in membership_plans :
           p.duration_months \in Nat /\ p.duration_months >= 1
    /\ \A q \in inflight :
           q.by = "save" => (q.row.duration_months \in Nat /\ q.row.duration_months >= 1)

C12_Witness ==
    /\ page = "create-membership-plan"
    /\ durationValue = 0 /\ PlanIsValid /\ PlanSubmitEnabled /\ nSaves < MaxSaves
    /\ \E p \in membership_plans \ InitialPlans : p.duration_months >= 1

\* C13: every plan a save put on the screen is a plan of the repository,
\* with its duration as a number of months: no save keeps a plan in memory
\* only, and a save that reports a created plan has issued an insert.
C13_EverySaveIsPersisted ==
    /\ \A p \in plans :
           /\ "duration_months" \in DOMAIN p
           /\ \E r \in membership_plans :
                  r.id = p.id /\ r.duration_months = p.duration_months
    /\ dialogToast.title = "Plan Created"
           => \E i \in DOMAIN repoLog :
                  repoLog[i].table = "membership_plans" /\ repoLog[i].op = "insert"

\* C14: a save of 30 days sends 1 month, and a save from an editor that was
\* filled by loadPlan and not edited since sends the months the stored plan
\* has; the stored plan keeps them, before and after the update lands,
\* however often such a save is repeated.
C14_RoundTrip ==
    lastSaved # <<>>
        => LET s == lastSaved[1]
           IN  /\ (s.type = "day" /\ s.value = 30) => s.row.duration_months = 1
               /\ (s.editingId # "" /\ s.loaded /\ s.touched = {})
                      => /\ \A p \in s.stored :
                                s.row.duration_months = p.duration_months
                         /\ \A p \in membership_plans :
                                p.id = s.editingId
                                    => p.duration_months = s.row.duration_months

C14_Witness ==
    /\ lastSaved # <<>>
    /\ lastSaved[1].editingId \notin {""} \cup {p.id : p \in InitialPlans}
    /\ lastSaved[1].loaded /\ lastSaved[1].touched = {}
    /\ lastSaved[1].prev = <<[value |-> 30, type |-> "day", op |-> "insert"]>>
    /\ \E p \in lastSaved[1].stored : p.duration_months = 1
    /\ \E i \in CallLog("save", lastSaved[1].id) :
           repoLog[i].op = "update" /\ repoLog[i].result = "ok"
    /\ \E p \in membership_plans :
           p.id = lastSaved[1].editingId /\ p.duration_months = 1

\* the editor filled by loadPlan shows the unit month until a duration
\* field is edited
ShownUnitIsMonth ==
    (page = "create-membership-plan" /\ planLoad = "loaded"
         /\ touched \cap {"value", "type"} = {})
        => durationType = "month"

\* a save from an editor in which only the unit was changed since loadPlan
\* sends the conversion of the value shown under the new unit
UnitChangeIsConverted ==
    (lastSaved # <<>> /\ lastSaved[1].loaded /\ lastSaved[1].touched = {"type"})
        => LET s == lastSaved[1]
           IN  CASE s.type = "day" -> IsCeilOfThirtieth(s.row.duration_months, s.value)
                 [] s.type = "week" -> IsCeilOfThirtieth(s.row.duration_months, s.value * 7)
                 [] s.type = "month" -> s.row.duration_months = s.value

\* C15: a plan opened in the editor is shown with unit month and its stored
\* months, whatever unit it was created with; picking another unit leaves
\* the value shown as it is, and the next save sends the conversion of that
\* value under the new unit.
C15_EditShowsMonths ==
    /\ [][ (planLoad # "loaded" /\ planLoad' = "loaded")
              => /\ durationType' = "month"
                 /\ \A p \in membership_plans :
                        p.id = editingId => durationValue' = p.duration_months ]_vars
    /\ []ShownUnitIsMonth
    /\ [][ (planLoad = "loaded" /\ planLoad' = "loaded" /\ editingId' = editingId
               /\ durationType' # durationType)
              => durationValue' = durationValue ]_vars
    /\ []UnitChangeIsConverted

C15_Witness ==
    /\ lastSaved # <<>>
    /\ lastSaved[1].editingId \notin {""} \cup {p.id : p \in InitialPlans}
    /\ lastSaved[1].prev = <<[value |-> 1, type |-> "week", op |-> "insert"]>>
    /\ lastSaved[1].loaded /\ lastSaved[1].touched = {"type"}
    /\ lastSaved[1].type = "day" /\ lastSaved[1].value = 1
    /\ lastSaved[1].row.duration_months = 1

\* C16: a plan that a save accepted has a name, a price that is not
\* negative, at least one feature and a duration: a save of anything else is
\* rejected.
C16_InvalidPlanIsRejected ==
    \A p \in plans :
        "duration" \in DOMAIN p
            => /\ p.name # "" /\ p.duration # ""
               /\ p.price >= 0
               /\ Len(p.features) >= 1

NoDuplicates(seq) == \A i, j \in DOMAIN seq : seq[i] = seq[j] => i = j

Position(seq, x) == CHOOSE k \in DOMAIN seq : seq[k] = x

\* sub holds exactly the elements of seq other than x, in the order of seq
IsSeqWithout(sub, seq, x) ==
    /\ Range(sub) = Range(seq) \ {x}
    /\ Len(sub) = Len(seq) - 1
    /\ \A i, j \in DOMAIN sub :
           i < j => Position(seq, sub[i]) < Position(seq, sub[j])

\* the plan a save that returned ok has written: the row it inserted, or the
\* row it updated
WrittenBy(s) ==
    {p \in membership_plans :
        \E i \in CallLog("save", s.id) :
            /\ repoLog[i].result = "ok"
            /\ \/ repoLog[i].op = "insert" /\ p.id = "plan-" \o ToString(repoLog[i].rowId)
               \/ repoLog[i].op = "update" /\ p.id = s.editingId}

\* C17: a click on a class that is selected removes it and keeps the order
\* of the others, a click on one that is not selected puts it last; a save
\* sends the selection in that order, the repository stores it so, and the
\* cards fetched afterwards show the features of each plan in stored order.
C17_FeaturesInSelectionOrder ==
    /\ [][ (planLoad' = planLoad /\ editingId' = editingId /\ page' = page
               /\ selectedClasses' # selectedClasses)
              => \E cls \in FITNESS_CLASSES :
                     IF cls \in Range(selectedClasses)
                     THEN IsSeqWithout(selectedClasses', selectedClasses, cls)
                     ELSE /\ Len(selectedClasses') = Len(selectedClasses) + 1
                          /\ selectedClasses'[Len(selectedClasses')] = cls
                          /\ \A i \in DOMAIN selectedClasses :
                                 selectedClasses'[i] = selectedClasses[i] ]_vars
    /\ [](NoDuplicates(selectedClasses))
    /\ [](lastSaved # <<>>
             => /\ lastSaved[1].row.features = lastSaved[1].classes
                /\ \A p \in WrittenBy(lastSaved[1]) :
                       p.features = lastSaved[1].classes)
    /\ [][ (page' = "memberships" /\ plans' # plans)
              => \A c \in plans' :
                     \E r \in membership_plans : r.id = c.id /\ c.features = r.features ]_vars

C17_Witness ==
    /\ page = "memberships"
    /\ lastSaved # <<>> /\ lastSaved[1].classes = <<"Yoga", "HIIT">>
    /\ lastSaved[1].editingId = ""
    /\ \E p \in WrittenBy(lastSaved[1]) :
           /\ p.features = <<"Yoga", "HIIT">>
           /\ \E c \in plans : c.id = p.id /\ c.features = <<"Yoga", "HIIT">>

PlanRowFields == {"name", "duration_months", "price", "description", "features"}

\* C18: the end date shown in the editor is never written: every row a plan
\* save sends has the fields name, duration_months, price, description and
\* features and no other, whatever end date the editor shows, and no stored
\* plan has a field beyond these, its id and its activity flag.
C18_EndDateIsNotWritten ==
    /\ \A q \in inflight : q.by = "save" => DOMAIN q.row = PlanRowFields
    /\ lastSaved # <<>> => DOMAIN lastSaved[1].row = PlanRowFields
    /\ \A p \in membership_plans :
           DOMAIN p = PlanRowFields \cup {"id", "is_active"}

C18_Witness ==
    /\ lastSaved # <<>> /\ lastSaved[1].endDate # NoDate
    /\ lastSaved[1].type = "week"
    /\ \E p \in WrittenBy(lastSaved[1]) : p.id \notin {r.id : r \in InitialPlans}

\* the calendar date n days after iso
AddDays(iso, n) == ToISODate((MakeDay(iso[1], iso[2] - 1, iso[3]) + n) * 24)

\* C19: for the units day and week the end date the editor shows is the start
\* date advanced by value days, respectively value * 7 days, month and year
\* boundaries included; the start date is today, taken either as the local or
\* as the UTC calendar date of the clock.
C19_PreviewAddsDays ==
    (endDate # NoDate /\ durationType \in {"day", "week"})
        => LET n == IF durationType = "day" THEN durationValue
                    ELSE durationValue * 7
           IN  endDate \in {AddDays(LocalDate(Now), n), AddDays(today, n)}

\* C20: with unit month and value 1 on the start date 2024-01-31 (today's
\* local or UTC calendar date) the editor shows one fixed end date, 2024-02-29
\* or 2024-03-02, and it is the date enrolment computes for a one-month plan
\* from that start date.
C20_PreviewMonthRollover ==
    ( /\ endDate # NoDate /\ durationType = "month" /\ durationValue = 1
      /\ (LocalDate(Now) = <<2024, 1, 31>> \/ today = <<2024, 1, 31>>) )
        => /\ endDate \in {<<2024, 2, 29>>, <<2024, 3, 2>>}
           /\ endDate = ComputeEndDate(<<2024, 1, 31>>, 1)

\* the day number of a calendar date
DayNumber(iso) == MakeDay(iso[1], iso[2] - 1, iso[3])

\* resolveStatus of the design: Expired past the end date, Expiring within
\* thresholdDays of it (inclusive), Active otherwise
ResolveStatus(end, now, thresholdDays) ==
    IF DayNumber(now) > DayNumber(end) THEN "Expired"
    ELSE IF DayNumber(end) - DayNumber(now) <= thresholdDays THEN "Expiring"
    ELSE "Active"

\* the thresholds a configuration may set
Thresholds == 0 .. 366

\* C21: the status the Members page shows for a member with an active
\* assignment is resolveStatus of the assignment's end date and today, for
\* the configured threshold: Expired when today is past the end date,
\* Expiring when the end date is at most the threshold ahead, Active otherwise.
C21_ShownStatusIsResolved ==
    \A i \in DOMAIN memberList :
        \A a \in member_memberships :
            (a.member_id = memberList[i].id /\ a.is_active)
                => \E t \in Thresholds :
                       memberList[i].status = ResolveStatus(a.end_date, today, t)

\* a Completed payment of the member dated on or after the start of the
\* member's active assignment (its current billing period)
HasCurrentPayment(memberId) ==
    \E p \in payments, a \in member_memberships :
        /\ p.member_id = memberId /\ p.status = "Completed"
        /\ a.member_id = memberId /\ a.is_active
        /\ DayNumber(p.payment_date) >= DayNumber(a.start_date)

\* C22: the payment status the Members page shows for a member is
\* resolvePaymentStatus: Paid when the member has a Completed payment dated on
\* or after the start of the current billing period, otherwise Overdue or Due
\* (by the due date).
C22_ShownPaymentStatusIsResolved ==
    \A i \in DOMAIN memberList :
        memberList[i].payment_status \in
            (IF HasCurrentPayment(memberList[i].id) THEN {"Paid"}
             ELSE {"Overdue", "Due"})

\* C23: payments are append-only: a payment row once stored stays stored with
\* the amount, date, method and status it was created with, and the only write
\* the program issues on the payments table is an insert.
C23_PaymentsAppendOnly ==
    /\ [][\A p \in payments : p \in payments']_vars
    /\ [](\A i \in DOMAIN repoLog :
              repoLog[i].table = "payments" => repoLog[i].op \in {"insert", "select"})
    /\ [](\A q \in inflight : q.table = "payments" => q.op \in {"insert", "select"})

C23_Witness ==
    /\ Cardinality(payments) = 2
    /\ Len(paymentList) = 2
    /\ inflight = {}

\* C24: every stored payment has an amount greater than 0, and a submission
\* with an amount of 0 or less issues no repository call.
C24_AmountIsPositive ==
    /\ \A p \in payments : p.amount > 0
    /\ \A q \in inflight : q.by = "recordPayment" => q.row.amount > 0

\* a step in which the insert of a record-payment returns an error
PaymentInsertFailed ==
    \E q \in inflight :
        /\ q.by = "recordPayment" /\ q \notin inflight'
        /\ \E i \in DOMAIN repoLog :
               /\ repoLog[i].by = "recordPayment" /\ repoLog[i].call = q.call
               /\ repoLog[i].result = "pending" /\ repoLog'[i].result = "error"

\* C25: when the repository call of a payment recording returns an error, the
\* message shown is the message the repository reported and no success
\* outcome is shown for the failed call.
C25_ErrorIsSurfaced ==
    [][PaymentInsertFailed
          => /\ payError' = RepositoryMessage
             /\ payToast'.title # "Payment Recorded"]_vars

\* C28: the record-payment operation shows 'Payment Recorded', clears the form
\* and closes the dialog only when the insert succeeded: when the insert
\* fails, the toast, the form contents and the open dialog stay as they were.
C28_SuccessOnlyOnSuccess ==
    [][PaymentInsertFailed
          => /\ payToast' = payToast
             /\ payForm' = payForm
             /\ isDialogOpen' = isDialogOpen]_vars

\* C26: every member_memberships row references a member row and a plan row
\* that are both in the repository.
C26_AssignmentsReferenceRows ==
    \A a \in member_memberships :
        /\ \E m \in members : m.id = a.member_id
        /\ \E p \in membership_plans : p.id = a.membership_plan_id

\* the delete calls that return an error in this step
FailedDeletes ==
    {q \in inflight \ inflight' :
        /\ q.op = "delete"
        /\ \E i \in DOMAIN repoLog :
               /\ repoLog[i].by = q.by /\ repoLog[i].call = q.call
               /\ repoLog[i].result = "pending" /\ repoLog'[i].result = "error"}

\* C27: deleteMember and deletePlan take the row off the list shown only when
\* the repository delete succeeded: when the delete returns an error the
\* member list and the plan cards keep every row they had.
C27_FailedDeleteKeepsRow ==
    [][FailedDeletes # {} => (memberList' = memberList /\ plans' = plans)]_vars

\* the updatePlan calls that return the stored row in this step
ReturnedUpdates ==
    {q \in inflight \ inflight' :
        /\ q.by = "updatePlan"
        /\ \E i \in DOMAIN repoLog :
               /\ repoLog[i].by = q.by /\ repoLog[i].call = q.call
               /\ repoLog[i].result = "pending" /\ repoLog'[i].result = "ok"}

\* C29: when updatePlan has succeeded the stored plan holds, for every field
\* present in updates, the value given (a price of 0 and a memberCount of 0
\* included), and every other column of the row is as it was.
C29_UpdateWritesEveryField ==
    [][\A q \in ReturnedUpdates :
          \A old \in membership_plans, new \in membership_plans' :
              (old.id = q.eq /\ new.id = q.eq)
                  => /\ \A f \in DOMAIN q.updates :
                            /\ DbColumn(f) \in DOMAIN new
                            /\ new[DbColumn(f)] = q.updates[f]
                     /\ \A c \in DOMAIN old \ {DbColumn(f) : f \in DOMAIN q.updates} :
                            new[c] = old[c]]_vars

\* C30: every enroll and every plan save finishes with the loading flag of its
\* page reset: once no handleSubmit of the mounted form is running, its
\* loading flag is false and its submit button enabled.
C30_LoadingIsReset ==
    /\ (page = "add-member" /\ invocations = {}) => (~loading /\ SubmitEnabled)
    /\ (page = "create-membership-plan" /\ saves = {})
           => (~planLoading /\ PlanSubmitEnabled)

====
